---- MODULE Spec2Model ----
(***************************************************************************)
(* Model of src/hyperliquid-watcher/hyperliquid.py: the poll loop (main),  *)
(* the delivery worker (zapier_worker), and the helper functions they      *)
(* call.  Text is modelled as a sequence of characters, so that slicing,   *)
(* lower-casing, hex parsing and decoding are computed, not assumed.  A    *)
(* printable ASCII character is the one-character string; any other        *)
(* character is named by its code point: "U+" and at least four hex        *)
(* digits ("U+0000" is NUL, "U+000a" the line feed, "U+00e9" is e-acute).  *)
(***************************************************************************)
EXTENDS Integers, Sequences, FiniteSets, TLC

(***************************************************************************)
(* Program constants (lines 9-19 of hyperliquid.py).                       *)
(***************************************************************************)
MAX_BLOCK_GAP == 10
BATCH_SIZE == 100
MAX_RETRIES == 3

\* RPCS (lines 9-11): the candidate endpoints, in list order.  The
\* repository leaves the list empty.
RPCS == <<>>

\* RPCS as a deployment fills it: each entry a URL, of which lines 74 and
\* 218 print the host, split('/')[2].
DEPLOYED_RPCS == <<"http://rpc1", "http://rpc2">>

\* ERC20_SIG (line 15).
ERC20_SIG ==
  <<"0","x","d","d","f","2","5","2","a","d","1","b","e","2","c","8","9","b",
    "6","9","c","2","b","0","6","8","f","c","3","7","8","d","a","a","9","5",
    "2","b","a","7","f","1","6","3","c","4","a","1","1","6","2","8","f","5",
    "5","a","4","d","f","5","2","3","b","3","e","f">>

\* The literal of line 13, before .lower() is applied.
WATCH_LITERAL ==
  <<"0","x","0","7","c","2","4","9","f","a","3","9","0","2","f","d","2","4",
    "3","a","d","0","f","a","5","8","0","4","7","b","E","8","A","3","2","6",
    "2","B","7","1","0","4">>

(***************************************************************************)
(* Characters.                                                             *)
(***************************************************************************)
HexAlphabet ==
  <<"0","1","2","3","4","5","6","7","8","9","a","b","c","d","e","f">>

Capitals ==
  <<"A","B","C","D","E","F","G","H","I","J","K","L","M",
    "N","O","P","Q","R","S","T","U","V","W","X","Y","Z">>
Smalls ==
  <<"a","b","c","d","e","f","g","h","i","j","k","l","m",
    "n","o","p","q","r","s","t","u","v","w","x","y","z">>

\* The characters of code points 32 to 126 (the grave accent, which a TLA+
\* string cannot hold, goes by its code point).
Printable ==
  <<" ","!","\"","#","$","%","&","'","(",")","*","+",",","-",".","/",
    "0","1","2","3","4","5","6","7","8","9",":",";","<","=",">","?","@">>
  \o Capitals \o <<"[","\\","]","^","_","U+0060">> \o Smalls
  \o <<"{","|","}","~">>

RECURSIVE HexString(_)
\* The hex digits of n >= 0, as one string.
HexString(n) ==
  IF n < 16 THEN HexAlphabet[n + 1]
  ELSE HexString(n \div 16) \o HexAlphabet[(n % 16) + 1]

RECURSIVE PadFour(_)
PadFour(digits) == IF Len(digits) >= 4 THEN digits ELSE PadFour("0" \o digits)

\* The character of a code point.
CharOf(cp) ==
  IF cp >= 32 /\ cp <= 126 THEN Printable[cp - 31]
  ELSE "U+" \o PadFour(HexString(cp))

\* The characters str.strip() removes: those str.isspace() holds for.
StrSpace ==
  {CharOf(cp) : cp \in (9..13) \cup (28..32) \cup {133, 160, 5760}
                         \cup (8192..8202) \cup {8232, 8233, 8239, 8287, 12288}}

\* The characters int() passes over at both ends of its argument, once the
\* argument is rewritten in ASCII.
IntSpace == {CharOf(cp) : cp \in (9..13) \cup {32}}

\* The characters bytes.fromhex() passes over between two bytes.
HexSpace == {CharOf(cp) : cp \in (9..13) \cup {32}}

(***************************************************************************)
(* The character tables str.lower() and int() go by (Unicode 14.0, the     *)
(* tables of CPython 3.11), as ranges of code points.                      *)
(***************************************************************************)
\* The characters that lower to one other character.  <<first, last, step,
\* delta>>: each of the code points first, first + step, ... up to last
\* lowers to the code point delta further on.
LowerRanges ==
  {<<65, 90, 1, 32>>, <<192, 214, 1, 32>>, <<216, 222, 1, 32>>,
   <<256, 302, 2, 1>>, <<306, 310, 2, 1>>, <<313, 327, 2, 1>>,
   <<330, 374, 2, 1>>, <<376, 376, 1, -121>>, <<377, 381, 2, 1>>,
   <<385, 385, 1, 210>>, <<386, 388, 2, 1>>, <<390, 390, 1, 206>>,
   <<391, 391, 1, 1>>, <<393, 394, 1, 205>>, <<395, 395, 1, 1>>,
   <<398, 398, 1, 79>>, <<399, 399, 1, 202>>, <<400, 400, 1, 203>>,
   <<401, 401, 1, 1>>, <<403, 403, 1, 205>>, <<404, 404, 1, 207>>,
   <<406, 406, 1, 211>>, <<407, 407, 1, 209>>, <<408, 408, 1, 1>>,
   <<412, 412, 1, 211>>, <<413, 413, 1, 213>>, <<415, 415, 1, 214>>,
   <<416, 420, 2, 1>>, <<422, 422, 1, 218>>, <<423, 423, 1, 1>>,
   <<425, 425, 1, 218>>, <<428, 428, 1, 1>>, <<430, 430, 1, 218>>,
   <<431, 431, 1, 1>>, <<433, 434, 1, 217>>, <<435, 437, 2, 1>>,
   <<439, 439, 1, 219>>, <<440, 440, 1, 1>>, <<444, 444, 1, 1>>,
   <<452, 452, 1, 2>>, <<453, 453, 1, 1>>, <<455, 455, 1, 2>>,
   <<456, 456, 1, 1>>, <<458, 458, 1, 2>>, <<459, 475, 2, 1>>,
   <<478, 494, 2, 1>>, <<497, 497, 1, 2>>, <<498, 500, 2, 1>>,
   <<502, 502, 1, -97>>, <<503, 503, 1, -56>>, <<504, 542, 2, 1>>,
   <<544, 544, 1, -130>>, <<546, 562, 2, 1>>, <<570, 570, 1, 10795>>,
   <<571, 571, 1, 1>>, <<573, 573, 1, -163>>, <<574, 574, 1, 10792>>,
   <<577, 577, 1, 1>>, <<579, 579, 1, -195>>, <<580, 580, 1, 69>>,
   <<581, 581, 1, 71>>, <<582, 590, 2, 1>>, <<880, 882, 2, 1>>,
   <<886, 886, 1, 1>>, <<895, 895, 1, 116>>, <<902, 902, 1, 38>>,
   <<904, 906, 1, 37>>, <<908, 908, 1, 64>>, <<910, 911, 1, 63>>,
   <<913, 929, 1, 32>>, <<931, 939, 1, 32>>, <<975, 975, 1, 8>>,
   <<984, 1006, 2, 1>>, <<1012, 1012, 1, -60>>, <<1015, 1015, 1, 1>>,
   <<1017, 1017, 1, -7>>, <<1018, 1018, 1, 1>>, <<1021, 1023, 1, -130>>,
   <<1024, 1039, 1, 80>>, <<1040, 1071, 1, 32>>, <<1120, 1152, 2, 1>>,
   <<1162, 1214, 2, 1>>, <<1216, 1216, 1, 15>>, <<1217, 1229, 2, 1>>,
   <<1232, 1326, 2, 1>>, <<1329, 1366, 1, 48>>, <<4256, 4293, 1, 7264>>,
   <<4295, 4295, 1, 7264>>, <<4301, 4301, 1, 7264>>,
   <<5024, 5103, 1, 38864>>, <<5104, 5109, 1, 8>>,
   <<7312, 7354, 1, -3008>>, <<7357, 7359, 1, -3008>>,
   <<7680, 7828, 2, 1>>, <<7838, 7838, 1, -7615>>, <<7840, 7934, 2, 1>>,
   <<7944, 7951, 1, -8>>, <<7960, 7965, 1, -8>>, <<7976, 7983, 1, -8>>,
   <<7992, 7999, 1, -8>>, <<8008, 8013, 1, -8>>, <<8025, 8031, 2, -8>>,
   <<8040, 8047, 1, -8>>, <<8072, 8079, 1, -8>>, <<8088, 8095, 1, -8>>,
   <<8104, 8111, 1, -8>>, <<8120, 8121, 1, -8>>, <<8122, 8123, 1, -74>>,
   <<8124, 8124, 1, -9>>, <<8136, 8139, 1, -86>>, <<8140, 8140, 1, -9>>,
   <<8152, 8153, 1, -8>>, <<8154, 8155, 1, -100>>, <<8168, 8169, 1, -8>>,
   <<8170, 8171, 1, -112>>, <<8172, 8172, 1, -7>>, <<8184, 8185, 1, -128>>,
   <<8186, 8187, 1, -126>>, <<8188, 8188, 1, -9>>,
   <<8486, 8486, 1, -7517>>, <<8490, 8490, 1, -8383>>,
   <<8491, 8491, 1, -8262>>, <<8498, 8498, 1, 28>>, <<8544, 8559, 1, 16>>,
   <<8579, 8579, 1, 1>>, <<9398, 9423, 1, 26>>, <<11264, 11311, 1, 48>>,
   <<11360, 11360, 1, 1>>, <<11362, 11362, 1, -10743>>,
   <<11363, 11363, 1, -3814>>, <<11364, 11364, 1, -10727>>,
   <<11367, 11371, 2, 1>>, <<11373, 11373, 1, -10780>>,
   <<11374, 11374, 1, -10749>>, <<11375, 11375, 1, -10783>>,
   <<11376, 11376, 1, -10782>>, <<11378, 11378, 1, 1>>,
   <<11381, 11381, 1, 1>>, <<11390, 11391, 1, -10815>>,
   <<11392, 11490, 2, 1>>, <<11499, 11501, 2, 1>>, <<11506, 11506, 1, 1>>,
   <<42560, 42604, 2, 1>>, <<42624, 42650, 2, 1>>, <<42786, 42798, 2, 1>>,
   <<42802, 42862, 2, 1>>, <<42873, 42875, 2, 1>>,
   <<42877, 42877, 1, -35332>>, <<42878, 42886, 2, 1>>,
   <<42891, 42891, 1, 1>>, <<42893, 42893, 1, -42280>>,
   <<42896, 42898, 2, 1>>, <<42902, 42920, 2, 1>>,
   <<42922, 42922, 1, -42308>>, <<42923, 42923, 1, -42319>>,
   <<42924, 42924, 1, -42315>>, <<42925, 42925, 1, -42305>>,
   <<42926, 42926, 1, -42308>>, <<42928, 42928, 1, -42258>>,
   <<42929, 42929, 1, -42282>>, <<42930, 42930, 1, -42261>>,
   <<42931, 42931, 1, 928>>, <<42932, 42946, 2, 1>>,
   <<42948, 42948, 1, -48>>, <<42949, 42949, 1, -42307>>,
   <<42950, 42950, 1, -35384>>, <<42951, 42953, 2, 1>>,
   <<42960, 42960, 1, 1>>, <<42966, 42968, 2, 1>>, <<42997, 42997, 1, 1>>,
   <<65313, 65338, 1, 32>>, <<66560, 66599, 1, 40>>,
   <<66736, 66771, 1, 40>>, <<66928, 66964, 2, 39>>,
   <<66929, 66937, 2, 39>>, <<66941, 66953, 2, 39>>,
   <<66957, 66961, 2, 39>>, <<66965, 66965, 1, 39>>,
   <<68736, 68786, 1, 64>>, <<71840, 71871, 1, 32>>,
   <<93760, 93791, 1, 32>>, <<125184, 125217, 1, 34>>}

\* The cased characters (letters with an upper or a lower case) that are
\* not case-ignorable, <<first, last>>.
CasedRanges ==
  {<<65, 90>>, <<97, 122>>, <<170, 170>>, <<181, 181>>, <<186, 186>>,
   <<192, 214>>, <<216, 246>>, <<248, 442>>, <<444, 447>>, <<452, 659>>,
   <<661, 687>>, <<880, 883>>, <<886, 887>>, <<891, 893>>, <<895, 895>>,
   <<902, 902>>, <<904, 906>>, <<908, 908>>, <<910, 929>>, <<931, 1013>>,
   <<1015, 1153>>, <<1162, 1327>>, <<1329, 1366>>, <<1376, 1416>>,
   <<4256, 4293>>, <<4295, 4295>>, <<4301, 4301>>, <<4304, 4346>>,
   <<4349, 4351>>, <<5024, 5109>>, <<5112, 5117>>, <<7296, 7304>>,
   <<7312, 7354>>, <<7357, 7359>>, <<7424, 7467>>, <<7531, 7543>>,
   <<7545, 7578>>, <<7680, 7957>>, <<7960, 7965>>, <<7968, 8005>>,
   <<8008, 8013>>, <<8016, 8023>>, <<8025, 8025>>, <<8027, 8027>>,
   <<8029, 8029>>, <<8031, 8061>>, <<8064, 8116>>, <<8118, 8124>>,
   <<8126, 8126>>, <<8130, 8132>>, <<8134, 8140>>, <<8144, 8147>>,
   <<8150, 8155>>, <<8160, 8172>>, <<8178, 8180>>, <<8182, 8188>>,
   <<8450, 8450>>, <<8455, 8455>>, <<8458, 8467>>, <<8469, 8469>>,
   <<8473, 8477>>, <<8484, 8484>>, <<8486, 8486>>, <<8488, 8488>>,
   <<8490, 8493>>, <<8495, 8500>>, <<8505, 8505>>, <<8508, 8511>>,
   <<8517, 8521>>, <<8526, 8526>>, <<8544, 8575>>, <<8579, 8580>>,
   <<9398, 9449>>, <<11264, 11387>>, <<11390, 11492>>, <<11499, 11502>>,
   <<11506, 11507>>, <<11520, 11557>>, <<11559, 11559>>, <<11565, 11565>>,
   <<42560, 42605>>, <<42624, 42651>>, <<42786, 42863>>, <<42865, 42887>>,
   <<42891, 42894>>, <<42896, 42954>>, <<42960, 42961>>, <<42963, 42963>>,
   <<42965, 42969>>, <<42997, 42998>>, <<43002, 43002>>, <<43824, 43866>>,
   <<43872, 43880>>, <<43888, 43967>>, <<64256, 64262>>, <<64275, 64279>>,
   <<65313, 65338>>, <<65345, 65370>>, <<66560, 66639>>, <<66736, 66771>>,
   <<66776, 66811>>, <<66928, 66938>>, <<66940, 66954>>, <<66956, 66962>>,
   <<66964, 66965>>, <<66967, 66977>>, <<66979, 66993>>, <<66995, 67001>>,
   <<67003, 67004>>, <<68736, 68786>>, <<68800, 68850>>, <<71840, 71903>>,
   <<93760, 93823>>, <<119808, 119892>>, <<119894, 119964>>,
   <<119966, 119967>>, <<119970, 119970>>, <<119973, 119974>>,
   <<119977, 119980>>, <<119982, 119993>>, <<119995, 119995>>,
   <<119997, 120003>>, <<120005, 120069>>, <<120071, 120074>>,
   <<120077, 120084>>, <<120086, 120092>>, <<120094, 120121>>,
   <<120123, 120126>>, <<120128, 120132>>, <<120134, 120134>>,
   <<120138, 120144>>, <<120146, 120485>>, <<120488, 120512>>,
   <<120514, 120538>>, <<120540, 120570>>, <<120572, 120596>>,
   <<120598, 120628>>, <<120630, 120654>>, <<120656, 120686>>,
   <<120688, 120712>>, <<120714, 120744>>, <<120746, 120770>>,
   <<120772, 120779>>, <<122624, 122633>>, <<122635, 122654>>,
   <<125184, 125251>>, <<127280, 127305>>, <<127312, 127337>>,
   <<127344, 127369>>}

\* The case-ignorable characters (marks, modifiers, the apostrophe, the
\* full stop, the colon ...), <<first, last>>.
CaseIgnorableRanges ==
  {<<39, 39>>, <<46, 46>>, <<58, 58>>, <<94, 94>>, <<96, 96>>,
   <<168, 168>>, <<173, 173>>, <<175, 175>>, <<180, 180>>, <<183, 184>>,
   <<688, 879>>, <<884, 885>>, <<890, 890>>, <<900, 901>>, <<903, 903>>,
   <<1155, 1161>>, <<1369, 1369>>, <<1375, 1375>>, <<1425, 1469>>,
   <<1471, 1471>>, <<1473, 1474>>, <<1476, 1477>>, <<1479, 1479>>,
   <<1524, 1524>>, <<1536, 1541>>, <<1552, 1562>>, <<1564, 1564>>,
   <<1600, 1600>>, <<1611, 1631>>, <<1648, 1648>>, <<1750, 1757>>,
   <<1759, 1768>>, <<1770, 1773>>, <<1807, 1807>>, <<1809, 1809>>,
   <<1840, 1866>>, <<1958, 1968>>, <<2027, 2037>>, <<2042, 2042>>,
   <<2045, 2045>>, <<2070, 2093>>, <<2137, 2139>>, <<2184, 2184>>,
   <<2192, 2193>>, <<2200, 2207>>, <<2249, 2306>>, <<2362, 2362>>,
   <<2364, 2364>>, <<2369, 2376>>, <<2381, 2381>>, <<2385, 2391>>,
   <<2402, 2403>>, <<2417, 2417>>, <<2433, 2433>>, <<2492, 2492>>,
   <<2497, 2500>>, <<2509, 2509>>, <<2530, 2531>>, <<2558, 2558>>,
   <<2561, 2562>>, <<2620, 2620>>, <<2625, 2626>>, <<2631, 2632>>,
   <<2635, 2637>>, <<2641, 2641>>, <<2672, 2673>>, <<2677, 2677>>,
   <<2689, 2690>>, <<2748, 2748>>, <<2753, 2757>>, <<2759, 2760>>,
   <<2765, 2765>>, <<2786, 2787>>, <<2810, 2815>>, <<2817, 2817>>,
   <<2876, 2876>>, <<2879, 2879>>, <<2881, 2884>>, <<2893, 2893>>,
   <<2901, 2902>>, <<2914, 2915>>, <<2946, 2946>>, <<3008, 3008>>,
   <<3021, 3021>>, <<3072, 3072>>, <<3076, 3076>>, <<3132, 3132>>,
   <<3134, 3136>>, <<3142, 3144>>, <<3146, 3149>>, <<3157, 3158>>,
   <<3170, 3171>>, <<3201, 3201>>, <<3260, 3260>>, <<3263, 3263>>,
   <<3270, 3270>>, <<3276, 3277>>, <<3298, 3299>>, <<3328, 3329>>,
   <<3387, 3388>>, <<3393, 3396>>, <<3405, 3405>>, <<3426, 3427>>,
   <<3457, 3457>>, <<3530, 3530>>, <<3538, 3540>>, <<3542, 3542>>,
   <<3633, 3633>>, <<3636, 3642>>, <<3654, 3662>>, <<3761, 3761>>,
   <<3764, 3772>>, <<3782, 3782>>, <<3784, 3789>>, <<3864, 3865>>,
   <<3893, 3893>>, <<3895, 3895>>, <<3897, 3897>>, <<3953, 3966>>,
   <<3968, 3972>>, <<3974, 3975>>, <<3981, 3991>>, <<3993, 4028>>,
   <<4038, 4038>>, <<4141, 4144>>, <<4146, 4151>>, <<4153, 4154>>,
   <<4157, 4158>>, <<4184, 4185>>, <<4190, 4192>>, <<4209, 4212>>,
   <<4226, 4226>>, <<4229, 4230>>, <<4237, 4237>>, <<4253, 4253>>,
   <<4348, 4348>>, <<4957, 4959>>, <<5906, 5908>>, <<5938, 5939>>,
   <<5970, 5971>>, <<6002, 6003>>, <<6068, 6069>>, <<6071, 6077>>,
   <<6086, 6086>>, <<6089, 6099>>, <<6103, 6103>>, <<6109, 6109>>,
   <<6155, 6159>>, <<6211, 6211>>, <<6277, 6278>>, <<6313, 6313>>,
   <<6432, 6434>>, <<6439, 6440>>, <<6450, 6450>>, <<6457, 6459>>,
   <<6679, 6680>>, <<6683, 6683>>, <<6742, 6742>>, <<6744, 6750>>,
   <<6752, 6752>>, <<6754, 6754>>, <<6757, 6764>>, <<6771, 6780>>,
   <<6783, 6783>>, <<6823, 6823>>, <<6832, 6862>>, <<6912, 6915>>,
   <<6964, 6964>>, <<6966, 6970>>, <<6972, 6972>>, <<6978, 6978>>,
   <<7019, 7027>>, <<7040, 7041>>, <<7074, 7077>>, <<7080, 7081>>,
   <<7083, 7085>>, <<7142, 7142>>, <<7144, 7145>>, <<7149, 7149>>,
   <<7151, 7153>>, <<7212, 7219>>, <<7222, 7223>>, <<7288, 7293>>,
   <<7376, 7378>>, <<7380, 7392>>, <<7394, 7400>>, <<7405, 7405>>,
   <<7412, 7412>>, <<7416, 7417>>, <<7468, 7530>>, <<7544, 7544>>,
   <<7579, 7679>>, <<8125, 8125>>, <<8127, 8129>>, <<8141, 8143>>,
   <<8157, 8159>>, <<8173, 8175>>, <<8189, 8190>>, <<8203, 8207>>,
   <<8216, 8217>>, <<8228, 8228>>, <<8231, 8231>>, <<8234, 8238>>,
   <<8288, 8292>>, <<8294, 8303>>, <<8305, 8305>>, <<8319, 8319>>,
   <<8336, 8348>>, <<8400, 8432>>, <<11388, 11389>>, <<11503, 11505>>,
   <<11631, 11631>>, <<11647, 11647>>, <<11744, 11775>>, <<11823, 11823>>,
   <<12293, 12293>>, <<12330, 12333>>, <<12337, 12341>>, <<12347, 12347>>,
   <<12441, 12446>>, <<12540, 12542>>, <<40981, 40981>>, <<42232, 42237>>,
   <<42508, 42508>>, <<42607, 42610>>, <<42612, 42621>>, <<42623, 42623>>,
   <<42652, 42655>>, <<42736, 42737>>, <<42752, 42785>>, <<42864, 42864>>,
   <<42888, 42890>>, <<42994, 42996>>, <<43000, 43001>>, <<43010, 43010>>,
   <<43014, 43014>>, <<43019, 43019>>, <<43045, 43046>>, <<43052, 43052>>,
   <<43204, 43205>>, <<43232, 43249>>, <<43263, 43263>>, <<43302, 43309>>,
   <<43335, 43345>>, <<43392, 43394>>, <<43443, 43443>>, <<43446, 43449>>,
   <<43452, 43453>>, <<43471, 43471>>, <<43493, 43494>>, <<43561, 43566>>,
   <<43569, 43570>>, <<43573, 43574>>, <<43587, 43587>>, <<43596, 43596>>,
   <<43632, 43632>>, <<43644, 43644>>, <<43696, 43696>>, <<43698, 43700>>,
   <<43703, 43704>>, <<43710, 43711>>, <<43713, 43713>>, <<43741, 43741>>,
   <<43756, 43757>>, <<43763, 43764>>, <<43766, 43766>>, <<43867, 43871>>,
   <<43881, 43883>>, <<44005, 44005>>, <<44008, 44008>>, <<44013, 44013>>,
   <<64286, 64286>>, <<64434, 64450>>, <<65024, 65039>>, <<65043, 65043>>,
   <<65056, 65071>>, <<65106, 65106>>, <<65109, 65109>>, <<65279, 65279>>,
   <<65287, 65287>>, <<65294, 65294>>, <<65306, 65306>>, <<65342, 65342>>,
   <<65344, 65344>>, <<65392, 65392>>, <<65438, 65439>>, <<65507, 65507>>,
   <<65529, 65531>>, <<66045, 66045>>, <<66272, 66272>>, <<66422, 66426>>,
   <<67456, 67461>>, <<67463, 67504>>, <<67506, 67514>>, <<68097, 68099>>,
   <<68101, 68102>>, <<68108, 68111>>, <<68152, 68154>>, <<68159, 68159>>,
   <<68325, 68326>>, <<68900, 68903>>, <<69291, 69292>>, <<69446, 69456>>,
   <<69506, 69509>>, <<69633, 69633>>, <<69688, 69702>>, <<69744, 69744>>,
   <<69747, 69748>>, <<69759, 69761>>, <<69811, 69814>>, <<69817, 69818>>,
   <<69821, 69821>>, <<69826, 69826>>, <<69837, 69837>>, <<69888, 69890>>,
   <<69927, 69931>>, <<69933, 69940>>, <<70003, 70003>>, <<70016, 70017>>,
   <<70070, 70078>>, <<70089, 70092>>, <<70095, 70095>>, <<70191, 70193>>,
   <<70196, 70196>>, <<70198, 70199>>, <<70206, 70206>>, <<70367, 70367>>,
   <<70371, 70378>>, <<70400, 70401>>, <<70459, 70460>>, <<70464, 70464>>,
   <<70502, 70508>>, <<70512, 70516>>, <<70712, 70719>>, <<70722, 70724>>,
   <<70726, 70726>>, <<70750, 70750>>, <<70835, 70840>>, <<70842, 70842>>,
   <<70847, 70848>>, <<70850, 70851>>, <<71090, 71093>>, <<71100, 71101>>,
   <<71103, 71104>>, <<71132, 71133>>, <<71219, 71226>>, <<71229, 71229>>,
   <<71231, 71232>>, <<71339, 71339>>, <<71341, 71341>>, <<71344, 71349>>,
   <<71351, 71351>>, <<71453, 71455>>, <<71458, 71461>>, <<71463, 71467>>,
   <<71727, 71735>>, <<71737, 71738>>, <<71995, 71996>>, <<71998, 71998>>,
   <<72003, 72003>>, <<72148, 72151>>, <<72154, 72155>>, <<72160, 72160>>,
   <<72193, 72202>>, <<72243, 72248>>, <<72251, 72254>>, <<72263, 72263>>,
   <<72273, 72278>>, <<72281, 72283>>, <<72330, 72342>>, <<72344, 72345>>,
   <<72752, 72758>>, <<72760, 72765>>, <<72767, 72767>>, <<72850, 72871>>,
   <<72874, 72880>>, <<72882, 72883>>, <<72885, 72886>>, <<73009, 73014>>,
   <<73018, 73018>>, <<73020, 73021>>, <<73023, 73029>>, <<73031, 73031>>,
   <<73104, 73105>>, <<73109, 73109>>, <<73111, 73111>>, <<73459, 73460>>,
   <<78896, 78904>>, <<92912, 92916>>, <<92976, 92982>>, <<92992, 92995>>,
   <<94031, 94031>>, <<94095, 94111>>, <<94176, 94177>>, <<94179, 94180>>,
   <<110576, 110579>>, <<110581, 110587>>, <<110589, 110590>>,
   <<113821, 113822>>, <<113824, 113827>>, <<118528, 118573>>,
   <<118576, 118598>>, <<119143, 119145>>, <<119155, 119170>>,
   <<119173, 119179>>, <<119210, 119213>>, <<119362, 119364>>,
   <<121344, 121398>>, <<121403, 121452>>, <<121461, 121461>>,
   <<121476, 121476>>, <<121499, 121503>>, <<121505, 121519>>,
   <<122880, 122886>>, <<122888, 122904>>, <<122907, 122913>>,
   <<122915, 122916>>, <<122918, 122922>>, <<123184, 123197>>,
   <<123566, 123566>>, <<123628, 123631>>, <<125136, 125142>>,
   <<125252, 125259>>, <<127995, 127999>>, <<917505, 917505>>,
   <<917536, 917631>>, <<917760, 917999>>}

\* The digit zero of every script; the digits one to nine follow it.
DecimalZeros ==
  {48, 1632, 1776, 1984, 2406, 2534, 2662, 2790, 2918, 3046, 3174, 3302,
   3430, 3558, 3664, 3792, 3872, 4160, 4240, 6112, 6160, 6470, 6608, 6784,
   6800, 6992, 7088, 7232, 7248, 42528, 43216, 43264, 43472, 43504, 43600,
   44016, 65296, 66720, 68912, 69734, 69872, 69942, 70096, 70384, 70736,
   70864, 71248, 71360, 71472, 71904, 72016, 72784, 73040, 73120, 92768,
   92864, 93008, 120782, 120792, 120802, 120812, 120822, 123200, 123632,
   125264, 130032}

\* The code points of a range of LowerRanges.
Spread(r) == {r[1] + k * r[3] : k \in 0..((r[2] - r[1]) \div r[3])}

\* Each character str.lower() changes, with the characters it lowers to.
\* U+0130, the capital I with a dot above, lowers to two: i and the
\* combining dot U+0307.
LowerPairs ==
  {<<CharOf(304), <<"i", CharOf(775)>>>>}
    \cup UNION {{<<CharOf(cp), <<CharOf(cp + r[4])>>>> : cp \in Spread(r)} :
                  r \in LowerRanges}
LoweredChars == {pair[1] : pair \in LowerPairs}
GrowingChars == {pair[1] : pair \in {p \in LowerPairs : Len(p[2]) > 1}}
AsciiCapitalChars == {Capitals[i] : i \in 1..26}

CasedChars == UNION {{CharOf(cp) : cp \in r[1]..r[2]} : r \in CasedRanges}
CaseIgnorableChars ==
  UNION {{CharOf(cp) : cp \in r[1]..r[2]} : r \in CaseIgnorableRanges}

\* The capital sigma lowers to the final sigma at the end of a word and to
\* the small sigma elsewhere.
CAPITAL_SIGMA == CharOf(931)
FINAL_SIGMA == CharOf(962)
SMALL_SIGMA == CharOf(963)

\* Each decimal digit beyond ASCII, with the ASCII digit of its value.
DecimalPairs ==
  {<<CharOf(zero + d), HexAlphabet[d + 1]>> :
     zero \in DecimalZeros \ {48}, d \in 0..9}
DecimalChars == {pair[1] : pair \in DecimalPairs}

\* The characters below U+007F.
AsciiChars == {CharOf(cp) : cp \in 0..126}

(***************************************************************************)
(* Text helpers: str.lower(), s[-n:], s[a:b], str.strip(), int(s, 16).     *)
(***************************************************************************)
\* F(value), with value worked out once before F is applied to it, as
\* Python works out an argument before the call.
Apply(F(_), value) == CHOOSE out \in {F(v) : v \in {value}} : TRUE

\* str.lower() on one character that is not the capital sigma: the
\* characters the character lowers to (two for U+0130, one otherwise).
LowerChar(c) ==
  IF c \in AsciiCapitalChars
  THEN <<Smalls[CHOOSE i \in 1..26 : Capitals[i] = c]>>
  ELSE IF c \in LoweredChars
  THEN (CHOOSE pair \in LowerPairs : pair[1] = c)[2]
  ELSE <<c>>

\* Whether the capital sigma at text[i] ends a word: the nearest character
\* before it that is not case-ignorable is cased, and the nearest such
\* character after it, when there is one, is not.
final_sigma(text, i) ==
  LET before == {j \in 1..(i - 1) : text[j] \notin CaseIgnorableChars}
      after == {j \in (i + 1)..Len(text) : text[j] \notin CaseIgnorableChars}
  IN /\ before # {}
     /\ text[CHOOSE j \in before : \A k \in before : k <= j] \in CasedChars
     /\ \/ after = {}
        \/ text[CHOOSE j \in after : \A k \in after : k >= j] \notin CasedChars

\* What the character at text[i] lowers to, where it stands.
LowerAt(text, i) ==
  IF text[i] = CAPITAL_SIGMA
  THEN (IF final_sigma(text, i) THEN <<FINAL_SIGMA>> ELSE <<SMALL_SIGMA>>)
  ELSE LowerChar(text[i])

\* str.lower(): the characters of LowerAt, one after the other.  Slot
\* 2i - 1 of the result holds the first character text[i] lowers to, slot
\* 2i the second one, when there is one.
Lower(s) ==
  LET Lowered(text) ==
        LET slots == SelectSeq([k \in 1..(2 * Len(text)) |-> k],
                               LAMBDA k : \/ k % 2 = 1
                                          \/ text[k \div 2] \in GrowingChars)
        IN SubSeq([j \in 1..Len(slots) |->
                     LowerAt(text, (slots[j] + 1) \div 2)[2 - (slots[j] % 2)]],
                  1, Len(slots))
  IN IF \A i \in 1..Len(s) :
          s[i] # CAPITAL_SIGMA /\ LowerChar(s[i]) = <<s[i]>>
     THEN s  \* every character lowers to itself
     ELSE Apply(Lowered, s)

\* s[-n:]: the last n characters, the whole string when it is shorter.
LastChars(s, n) ==
  IF Len(s) <= n THEN s ELSE SubSeq(s, Len(s) - n + 1, Len(s))

Min(a, b) == IF a <= b THEN a ELSE b
Max(a, b) == IF a >= b THEN a ELSE b

\* Where the index i of a slice of a sequence of length n falls: an index
\* below 0 counts from the end, and every index is clamped to 0..n.
SliceIndex(i, n) == IF i < 0 THEN Max(i + n, 0) ELSE Min(i, n)

\* s[a:b], a and b counted from 0.
Slice(s, a, b) ==
  IF SliceIndex(a, Len(s)) >= SliceIndex(b, Len(s)) THEN <<>>
  ELSE SubSeq(s, SliceIndex(a, Len(s)) + 1, SliceIndex(b, Len(s)))

\* str.lstrip(chars): text from its first character outside chars on.
StripLeft(text, chars) ==
  LET First(t) == CHOOSE i \in 1..(Len(t) + 1) :
                    /\ \A j \in 1..(i - 1) : t[j] \in chars
                    /\ i > Len(t) \/ t[i] \notin chars
      From(t) == SubSeq(t, First(t), Len(t))
  IN Apply(From, text)

\* str.rstrip(chars): text up to its last character outside chars.
StripRight(text, chars) ==
  LET \* The number of characters taken off the end.
      Off(t) == CHOOSE k \in 0..Len(t) :
                  /\ \A j \in (Len(t) - k + 1)..Len(t) : t[j] \in chars
                  /\ k = Len(t) \/ t[Len(t) - k] \notin chars
      UpTo(t) == SubSeq(t, 1, Len(t) - Off(t))
  IN Apply(UpTo, text)

\* str.strip(chars)
Strip(text, chars) == StripRight(StripLeft(text, chars), chars)

\* The value of one ASCII hexadecimal digit, -1 for any other character.
HexVal(c) ==
  CASE c = "0" -> 0 [] c = "1" -> 1 [] c = "2" -> 2 [] c = "3" -> 3
    [] c = "4" -> 4 [] c = "5" -> 5 [] c = "6" -> 6 [] c = "7" -> 7
    [] c = "8" -> 8 [] c = "9" -> 9
    [] c = "a" -> 10 [] c = "b" -> 11 [] c = "c" -> 12
    [] c = "d" -> 13 [] c = "e" -> 14 [] c = "f" -> 15
    [] c = "A" -> 10 [] c = "B" -> 11 [] c = "C" -> 12
    [] c = "D" -> 13 [] c = "E" -> 14 [] c = "F" -> 15
    [] OTHER -> -1

\* WATCH_ADDRESS (line 13).
WATCH_ADDRESS == Lower(WATCH_LITERAL)

(***************************************************************************)
(* int(s, 16).  Python's integers have no bound: the result is kept as a   *)
(* sign and the significant hex digits, most significant first (no digit   *)
(* for zero).                                                              *)
(***************************************************************************)
ValueError == [kind |-> "ValueError"]

\* The integer with the given sign and digits.
PyInt(neg, digits) == [kind |-> "int", neg |-> neg, digits |-> digits]

\* int() first rewrites a character beyond ASCII: a space becomes the ASCII
\* space, a decimal digit of any script the ASCII digit of its value, any
\* other character a question mark, which no number holds.
AsciiDecimalChar(c) ==
  IF c \in AsciiChars THEN c
  ELSE IF c \in StrSpace THEN " "
  ELSE IF c \in DecimalChars THEN (CHOOSE pair \in DecimalPairs : pair[1] = c)[2]
  ELSE "?"

\* The argument of int() rewritten in ASCII; text of ASCII characters is
\* taken as it is.
AsciiDecimal(text) ==
  IF \A i \in 1..Len(text) : text[i] \in AsciiChars THEN text
  ELSE SubSeq([i \in 1..Len(text) |-> AsciiDecimalChar(text[i])], 1, Len(text))

\* What int() reads the digits from: the argument, already in ASCII and
\* without the whitespace at both ends, without the sign, without the
\* 0x / 0X prefix and without the one underscore that may follow the prefix.
IntBody(stripped) ==
  LET unsigned == IF stripped # <<>> /\ stripped[1] \in {"+", "-"}
                  THEN Tail(stripped) ELSE stripped
      prefixed == /\ Len(unsigned) >= 2
                  /\ unsigned[1] = "0"
                  /\ unsigned[2] \in {"x", "X"}
      body == IF prefixed THEN SubSeq(unsigned, 3, Len(unsigned)) ELSE unsigned
  IN IF prefixed /\ body # <<>> /\ body[1] = "_" THEN Tail(body) ELSE body

\* int() accepts hex digits with single underscores between them.
IntBodyValid(body) ==
  /\ body # <<>>
  /\ HexVal(body[1]) >= 0
  /\ HexVal(body[Len(body)]) >= 0
  /\ \A i \in 1..(Len(body) - 1) :
       \/ HexVal(body[i]) >= 0
       \/ body[i] = "_" /\ body[i + 1] # "_"

\* The digits of a valid body: no underscore, no leading zero, lower case.
SignificantDigits(body) ==
  Lower(StripLeft(SelectSeq(body, LAMBDA c : c # "_"), {"0"}))

\* int(s, 16)
IntHex(s) ==
  LET Read(stripped) ==
        LET Value(digits) ==
              PyInt(stripped[1] = "-" /\ digits # <<>>, digits)
            Digits(body) ==
              IF ~IntBodyValid(body) THEN ValueError
              ELSE Apply(Value, SignificantDigits(body))
        IN Apply(Digits, IntBody(stripped))
  IN Apply(Read, Strip(AsciiDecimal(s), IntSpace))

RECURSIVE PlaceValue(_)
\* Big-endian base-16 value of a string of hex digits.
PlaceValue(digits) ==
  IF digits = <<>> THEN 0
  ELSE HexVal(digits[Len(digits)])
         + 16 * PlaceValue(SubSeq(digits, 1, Len(digits) - 1))

\* An integer where the program computes with it (a block height, an offset
\* into a string).  Magnitudes from 16^6 on are all shown as 16^6: the
\* heights of the model are below it, and as an index into a string every
\* such number falls beyond the end.
Far == 16777216
Num(v) ==
  LET Small(n) ==
        IF Len(n.digits) > 6 THEN (IF n.neg THEN 0 - Far ELSE Far)
        ELSE IF n.neg THEN 0 - PlaceValue(n.digits) ELSE PlaceValue(n.digits)
  IN Apply(Small, v)

RECURSIVE HexSeq(_)
\* The digits of n > 0, n = 0 having none.
HexSeq(n) ==
  IF n = 0 THEN <<>>
  ELSE HexSeq(n \div 16) \o <<HexAlphabet[(n % 16) + 1]>>

\* The Python integer n, for n >= 0.
IntOf(n) == PyInt(FALSE, HexSeq(n))

\* float(v) raises OverflowError: the magnitude is 2^1024 - 2^970 or more
\* (it rounds to 2^1024, which no double holds).  That is a number of more
\* than 256 hex digits, or of 256 digits that starts with thirteen f and a
\* digit of c or more.
float_overflows(v) ==
  LET Huge(digits) ==
        \/ Len(digits) > 256
        \/ /\ Len(digits) = 256
           /\ \A i \in 1..13 : digits[i] = "f"
           /\ HexVal(digits[14]) >= 12
  IN Apply(Huge, v.digits)

\* 10^4300 in hexadecimal, without the zeros it ends in: 5^4300 times 16,
\* 10^4300 being 5^4300 * 2^4300 and 4300 = 4 * 1074 + 4.
STR_LIMIT_LEAD ==
  <<
     "1", "3", "9", "2", "b", "d", "7", "c", "2", "a", "1", "a", "a", "8", "4", "a",
     "7", "2", "e", "2", "0", "5", "6", "d", "3", "b", "1", "7", "f", "0", "1", "c",
     "b", "0", "8", "8", "0", "0", "b", "8", "2", "3", "8", "b", "f", "7", "c", "e",
     "6", "8", "d", "f", "9", "1", "0", "1", "2", "d", "3", "7", "2", "4", "8", "b",
     "a", "8", "8", "2", "8", "0", "e", "d", "1", "3", "3", "5", "2", "1", "8", "9",
     "6", "f", "4", "b", "b", "e", "4", "4", "7", "7", "1", "7", "3", "d", "7", "7",
     "9", "8", "3", "e", "a", "0", "2", "8", "1", "4", "8", "a", "6", "c", "6", "8",
     "5", "6", "0", "c", "5", "5", "1", "7", "4", "c", "8", "e", "4", "2", "6", "4",
     "3", "6", "b", "f", "2", "5", "3", "f", "0", "7", "6", "d", "5", "e", "8", "e",
     "5", "5", "2", "6", "2", "5", "6", "c", "2", "4", "e", "1", "e", "3", "1", "e",
     "7", "3", "f", "4", "9", "0", "f", "6", "0", "8", "6", "9", "f", "1", "1", "d",
     "c", "2", "4", "0", "2", "6", "7", "1", "a", "6", "b", "6", "0", "c", "8", "b",
     "3", "a", "d", "d", "0", "f", "2", "8", "7", "1", "6", "b", "7", "8", "a", "8",
     "5", "b", "c", "7", "1", "e", "b", "7", "b", "c", "6", "f", "c", "a", "2", "6",
     "2", "8", "4", "e", "8", "c", "6", "e", "1", "0", "9", "c", "f", "c", "f", "b",
     "d", "e", "3", "f", "2", "0", "5", "a", "6", "e", "3", "7", "b", "a", "d", "5",
     "7", "b", "1", "c", "6", "b", "5", "9", "6", "1", "f", "8", "d", "1", "3", "4",
     "8", "a", "2", "a", "7", "e", "0", "0", "e", "e", "a", "5", "5", "d", "a", "8",
     "d", "b", "b", "9", "a", "d", "d", "b", "2", "e", "7", "3", "7", "e", "5", "3",
     "2", "7", "1", "4", "0", "0", "7", "7", "a", "6", "d", "3", "b", "d", "9", "4",
     "f", "6", "b", "d", "b", "9", "9", "2", "a", "0", "b", "a", "b", "5", "a", "2",
     "2", "c", "2", "b", "c", "b", "e", "c", "2", "a", "6", "e", "5", "6", "c", "a",
     "2", "4", "a", "d", "b", "2", "0", "5", "5", "3", "5", "7", "7", "5", "5", "f",
     "6", "f", "3", "a", "b", "8", "3", "0", "8", "1", "e", "3", "e", "9", "1", "b",
     "b", "6", "4", "6", "9", "4", "2", "9", "8", "0", "8", "e", "9", "2", "b", "7",
     "5", "e", "2", "b", "9", "7", "7", "b", "e", "7", "c", "e", "c", "5", "9", "0",
     "7", "9", "9", "a", "4", "2", "8", "c", "b", "5", "5", "5", "e", "8", "b", "7",
     "b", "9", "2", "6", "3", "8", "e", "d", "2", "8", "0", "a", "c", "3", "7", "2",
     "6", "3", "4", "1", "8", "0", "8", "b", "d", "6", "a", "0", "8", "9", "e", "1",
     "1", "2", "8", "1", "3", "c", "c", "9", "e", "e", "f", "6", "2", "9", "e", "5",
     "9", "0", "8", "b", "b", "4", "3", "b", "1", "3", "2", "0", "8", "8", "6", "c",
     "8", "b", "3", "5", "1", "b", "6", "e", "6", "4", "8", "7", "b", "9", "2", "a",
     "6", "6", "4", "c", "c", "4", "6", "8", "7", "7", "5", "5", "5", "5", "a", "a",
     "9", "a", "5", "7", "0", "d", "c", "6", "0", "b", "7", "0", "d", "3", "9", "6",
     "5", "b", "f", "4", "6", "0", "c", "7", "4", "4", "2", "9", "4", "5", "c", "e",
     "8", "5", "a", "3", "e", "2", "4", "d", "d", "7", "6", "d", "9", "8", "d", "6",
     "d", "e", "a", "4", "8", "d", "1", "3", "7", "5", "4", "8", "5", "8", "3", "9",
     "1", "4", "c", "c", "d", "d", "4", "3", "0", "5", "d", "f", "d", "0", "3", "6",
     "8", "d", "4", "9", "0", "5", "5", "4", "9", "4", "3", "0", "6", "1", "6", "7",
     "e", "7", "a", "3", "0", "1", "1", "d", "0", "8", "0", "0", "8", "1", "a", "b",
     "a", "c", "e", "3", "7", "8", "1", "a", "e", "4", "3", "0", "f", "4", "9", "9",
     "2", "1", "4", "b", "8", "5", "2", "3", "e", "4", "1", "1", "4", "5", "b", "a",
     "2", "f", "a", "7", "1", "0", "9", "3", "3", "e", "0", "b", "6", "4", "5", "6",
     "b", "c", "0", "b", "1", "3", "4", "9", "b", "5", "f", "8", "9", "0", "5", "b",
     "e", "e", "a", "a", "3", "a", "8", "a", "a", "a", "f", "c", "1", "9", "6", "5",
     "5", "6", "b", "f", "5", "e", "d", "c", "9", "8", "1", "9", "e", "d", "d", "9",
     "6", "d", "1", "7", "c", "7", "6", "e", "5", "8", "4", "9", "7", "e", "6", "d",
     "7", "e", "b", "d", "c", "f", "b", "d", "b", "0", "5", "1", "5", "4", "f", "7",
     "a", "0", "4", "3", "6", "b", "7", "d", "c", "6", "a", "5", "f", "f", "9", "1",
     "1", "f", "b", "e", "f", "9", "6", "a", "3", "f", "b", "4", "5", "0", "3", "1",
     "c", "8", "2", "e", "1", "0", "a", "f", "e", "7", "7", "2", "9", "7", "8", "3",
     "c", "c", "c", "8", "a", "e", "3", "6", "a", "2", "f", "7", "f", "6", "0", "2",
     "a", "8", "c", "9", "a", "8", "1", "6", "2", "8", "4", "1", "d", "b", "2", "e",
     "9", "c", "d", "9", "f", "9", "b", "0", "3", "3", "5", "f", "6", "0", "5", "1",
     "a", "8", "4", "d", "4", "2", "c", "8", "0", "b", "9", "0", "4", "e", "5", "9",
     "9", "0", "d", "6", "5", "f", "6", "1", "e", "5", "f", "0", "7", "4", "8", "d",
     "9", "b", "4", "8", "7", "d", "4", "9", "2", "6", "9", "0", "4", "e", "8", "b",
     "6", "a", "8", "0", "6", "1", "e", "d", "5", "4", "a", "b", "4", "7", "f", "f",
     "8", "1", "8", "f", "c", "3", "a", "0", "8", "6", "2", "c", "3", "2", "7", "6",
     "2", "0", "9", "b", "3", "4", "9", "4", "1", "5", "c", "2", "5", "f", "5", "f",
     "e", "4", "c", "2", "3", "3", "0", "7", "f", "2", "4", "f", "9", "9", "9", "d",
     "1", "0", "9", "1", "4", "b", "0", "e", "a", "f", "7", "1", "f", "d", "c", "a",
     "9", "4", "3", "5", "c", "a", "d", "e", "e", "7", "d", "d", "1", "4", "e", "b",
     "a", "1", "2", "7", "9", "9", "6", "f", "2", "c", "f", "f", "b", "a", "d", "0",
     "d", "5", "f", "6", "3", "6", "8", "0", "b", "4", "2", "6", "0", "4", "a", "7",
     "d", "9", "a", "6", "d", "1", "b", "b", "b", "9", "d", "9", "f", "c", "3", "c",
     "f", "f", "2", "9", "3", "5", "0", "3", "0", "5", "c", "8", "f", "8", "0", "b",
     "4", "5", "f", "4", "e", "3", "8", "5", "6", "6", "7", "e", "5", "e", "a", "1",
     "c", "7", "2", "d", "b", "3", "0", "6", "1", "4", "b", "c", "b", "e", "e", "5",
     "6", "c", "5", "2", "3", "d", "3", "0", "f", "9", "a", "c", "f", "4", "5", "7",
     "f", "1", "d", "2", "b", "6", "f", "1", "c", "9", "d", "0", "5", "9", "b", "9",
     "b", "e", "5", "b", "c", "c", "4", "f", "1", "e", "9", "8", "e", "7", "a", "e",
     "2", "7", "c", "d", "5", "4", "4", "7", "a", "5", "7", "a", "5", "1", "a", "e",
     "1", "e", "8", "1", "b", "c", "1", "9", "6", "5", "0", "5", "8", "f", "d", "2",
     "a", "f", "4", "a", "3", "f", "d", "2", "1", "f", "3", "4", "e", "1", "d", "8",
     "d", "d", "e", "0", "6", "d", "6", "2", "c", "4", "4", "5", "d", "c", "5", "0",
     "8", "2", "6", "0", "a", "b", "0", "f", "a", "2", "b", "4", "3", "0", "6", "b",
     "4", "e", "c", "e", "c", "0", "5", "1", "3", "1", "2", "4", "4", "0", "2", "c",
     "2", "c", "9", "f", "d", "2", "6", "1", "3", "f", "6", "d", "5", "8", "b", "c",
     "e", "e", "9", "c", "1", "f", "0", "8", "8", "9", "0", "9", "c", "2", "4", "6",
     "b", "6", "0", "d", "9", "a", "4", "6", "2", "9", "a", "7", "c", "9", "4", "1",
     "b", "1", "5", "e", "7", "8", "f", "5", "b", "b", "9", "c", "7", "c", "f", "3",
     "6", "0", "5", "f", "3", "c", "2", "a", "4", "7", "8", "6", "e", "d", "d", "c",
     "a", "f", "3", "1", "9", "7", "b", "b", "1", "9", "8", "a", "d", "5", "a", "6",
     "8", "e", "2", "b", "e", "0", "f", "5", "e", "2", "f", "b", "b", "1", "9", "a",
     "d", "1", "e", "0", "e", "5", "5", "d", "2", "2", "9", "1", "3", "b", "2", "4",
     "b", "b", "4", "6", "c", "c", "d", "b", "3", "4", "9", "4", "3", "b", "3", "1",
     "7", "a", "5", "9", "4", "c", "a", "a", "8", "a", "2", "2", "0", "4", "8", "d",
     "0", "b", "e", "d", "e", "2", "d", "3", "3", "e", "f", "1", "f", "1", "3", "8",
     "4", "f", "7", "8", "c", "4", "6", "7", "2", "6", "4", "5", "5", "2", "c", "8",
     "c", "e", "f", "2", "4", "e", "5", "c", "8", "c", "a", "6", "3", "9", "4", "c",
     "6", "6", "6", "e", "e", "2", "f", "b", "6", "1", "c", "4", "4", "1", "d", "8",
     "6", "7", "b", "4", "f", "0", "c", "6", "9", "a", "8", "2", "8", "f", "2", "0",
     "1", "b", "6", "6", "8", "3", "b", "d", "9", "d", "7", "3", "3", "4", "7", "b",
     "0", "a", "f", "a", "8", "e", "0", "d", "1", "b", "d", "2", "6", "3", "5", "8",
     "7", "d", "9", "5", "f", "9", "3", "6", "5", "2", "8", "7", "8", "f", "6", "d",
     "8", "2", "e", "d", "3", "c", "e", "2", "c", "c", "d", "c", "b", "1", "6", "4",
     "c", "d", "9", "5", "a", "5", "f", "6", "8", "3", "4", "5", "f", "e", "9", "8",
     "b", "0", "2", "c", "5", "2", "5", "b", "5", "4", "3", "c", "8", "5", "4", "b",
     "5", "9", "c", "3", "c", "1", "f", "9", "0", "3", "3", "4", "9", "1", "8", "d",
     "6", "7", "9", "b", "5", "2", "b", "4", "a", "2", "e", "5", "6", "c", "d", "d",
     "e", "0", "e", "4", "2", "a", "f", "d", "7", "e", "7", "c", "e", "a", "4", "8",
     "3", "9", "e", "c", "1", "3", "c", "0", "9", "9", "a", "9", "7", "b", "2", "6",
     "0", "8", "d", "3", "5", "a", "8", "d", "6", "0", "d", "d", "d", "5", "3", "0",
     "e", "f", "a", "c", "1", "2", "3", "3", "a", "a", "2", "f", "9", "2", "f", "d",
     "6", "4", "c", "9", "b", "b", "6", "b", "9", "d", "b", "9", "e", "6", "1", "d",
     "d", "5", "6", "9", "6", "a", "e", "5", "1", "0", "6", "9", "8", "e", "0", "0",
     "7", "8", "8", "8", "0", "c", "3", "7", "b", "3", "b", "5", "5", "e", "e", "0",
     "f", "9", "6", "9", "1", "a", "3", "0", "7", "e", "d", "1", "f", "8", "d", "4",
     "9", "f", "8", "3", "8", "3", "d", "c", "a", "c", "6", "9", "9", "7", "1", "4",
     "d", "b", "d", "5", "e", "8", "d", "4", "1", "8", "8", "9", "0", "3", "f", "5",
     "2", "d", "1", "5", "2", "0", "2", "5", "7", "4", "9", "b", "4", "a", "6", "5",
     "d", "8", "3", "9", "1", "e", "e", "5", "1", "9", "f", "f", "5", "e", "4", "3",
     "4", "a", "7", "e", "9", "7", "c", "1", "d", "c", "8", "3", "8", "1", "9", "6",
     "7", "8", "b", "4", "e", "b", "3", "6", "1", "a", "c", "7", "d", "1", "2", "d",
     "2", "a", "6", "6", "5", "3", "f", "c", "d", "a", "7", "e", "5", "2", "0", "6",
     "5", "3", "e", "8", "d", "d", "0", "6", "5", "0", "6", "3", "f", "b", "1", "4",
     "1", "5", "e", "0", "3", "6", "c", "3", "a", "0", "c", "9", "3", "d", "2", "2",
     "4", "a", "0", "4", "a", "5", "8", "8", "6", "4", "8", "f", "e", "9", "3", "f",
     "f", "7", "6", "b", "f", "0", "c", "d", "b", "a", "6", "e", "f", "4", "2", "c",
     "1", "3", "b", "c", "1", "b", "9", "7", "6", "b", "e", "0", "1", "e", "f", "8",
     "f", "4", "8", "d", "3", "f", "7", "f", "f", "4", "b", "0", "0", "a", "3", "a",
     "0", "8", "6", "c", "5", "b", "6", "4", "5", "4", "e", "1", "6", "9", "9", "2",
     "7", "0", "6", "a", "f", "1", "c", "8", "7", "7", "7", "d", "5", "0", "f", "e",
     "0", "2", "7", "5", "d", "4", "5", "3", "b", "d", "2", "a", "2", "3", "e", "c",
     "b", "b", "1", "d", "f", "1", "0", "3", "2", "f", "e", "5", "6", "8", "7", "3",
     "8", "5", "f", "b", "3", "c", "d", "2", "6", "b", "4", "3", "2", "c", "8", "a",
     "f", "0", "d", "1", "7", "8", "1", "9", "4", "6", "7", "5", "0", "8", "f", "2",
     "f", "a", "7", "8", "f", "5", "f", "6", "a", "5", "6", "f", "9", "5", "5", "1",
     "8", "7", "5", "6", "0", "d", "8", "d", "4", "a", "a", "1", "f", "a", "4", "8",
     "0", "0", "6", "2", "f", "9", "f", "c", "a", "8", "6", "9", "2", "9", "c", "6",
     "2", "7", "4", "3", "2", "c", "a", "7", "0", "f", "5", "3", "b", "8", "0", "c",
     "4", "c", "d", "5", "2", "5", "3", "4", "1", "8", "f", "4", "8", "6", "7", "1",
     "4", "f", "5", "5", "f", "f", "d", "b", "6", "f", "c", "a", "c", "3", "c", "7",
     "d", "9", "6", "d", "2", "8", "8", "a", "e", "e", "a", "b", "a", "8", "6", "2",
     "6", "0", "d", "9", "d", "4", "b", "5", "3", "8", "2", "9", "b", "7", "e", "e",
     "f", "d", "c", "3", "5", "c", "5", "b", "5", "6", "d", "5", "b", "9", "9", "1",
     "6", "e", "9", "9", "2", "a", "4", "7", "7", "c", "4", "4", "b", "9", "d", "f",
     "5", "c", "c", "8", "c", "1", "f", "1", "1", "d", "c", "5", "2", "d", "3", "c",
     "6", "e", "e", "c", "3", "8", "7", "3", "6", "6", "6", "1", "5", "7", "8", "3",
     "2", "3", "9", "8", "3", "9", "a", "d", "4", "c", "5", "8", "6", "f", "2", "c",
     "e", "4", "c", "c", "5", "c", "6", "d", "e", "d", "0", "a", "b", "5", "c", "1",
     "2", "6", "e", "0", "b", "8", "f", "9", "1", "6", "c", "5", "6", "0", "2", "9",
     "5", "c", "3", "e", "d", "3", "3", "d", "c", "1", "b", "9", "8", "3", "f", "4",
     "0", "d", "4", "f", "3", "5", "7", "1", "6", "f", "b", "f", "5", "0", "b", "6",
     "e", "d", "4", "e", "0", "0", "8", "9", "5", "9", "7", "8", "d", "0", "8", "4",
     "e", "8", "2", "c", "d", "e", "6", "a", "4", "d", "1", "9", "2", "0", "a", "2",
     "0", "0", "c", "4", "d", "c", "b", "8", "b", "e", "e", "c", "c", "8", "2", "a",
     "e", "c", "8", "c", "3", "e", "5", "b", "a", "c", "5", "4", "f", "3", "b", "3",
     "9", "d", "d", "b", "a", "1", "a", "a", "2", "9", "6", "b", "0", "4", "a", "e",
     "c", "f", "f", "3", "a", "1", "4", "f", "6", "5", "8", "1", "3", "0", "5", "1",
     "3", "9", "3", "1", "a", "8", "a", "0", "f", "3", "2", "5", "3", "8", "6", "7",
     "8", "2", "c", "7", "a", "c", "5", "e", "f", "8", "f", "0", "e", "3", "f", "8",
     "9", "9", "1", "a", "7", "9", "f", "f", "5", "d", "4", "7", "0", "1", "e", "9",
     "6", "c", "a", "0", "3", "d", "8", "8", "4", "a", "c", "5", "d", "2", "4", "3",
     "4", "8", "8", "a", "7", "6", "9", "a", "4", "9", "6", "7", "1", "7", "7", "5",
     "1", "0"
  >>

\* 10^4300, the least number of more than 4300 decimal digits.  4300 is
\* sys.int_info.default_max_str_digits of CPython 3.11, the most digits
\* str() and the formatting of an f-string give an int.
STR_LIMIT == STR_LIMIT_LEAD \o [i \in 1..1074 |-> "0"]

\* Formatting v in decimal (line 285) raises ValueError: the magnitude is
\* 10^4300 or more.
str_overflows(v) ==
  LET Long(digits) ==
        \/ Len(digits) > Len(STR_LIMIT)
        \/ /\ Len(digits) = Len(STR_LIMIT)
           /\ LET differ == {i \in 1..Len(digits) :
                               HexVal(digits[i]) # HexVal(STR_LIMIT[i])}
              IN \/ differ = {}
                 \/ \E i \in differ :
                      /\ \A j \in differ : i <= j
                      /\ HexVal(digits[i]) > HexVal(STR_LIMIT[i])
  IN Apply(Long, v.digits)

(***************************************************************************)
(* decode_log (lines 100-129).  The result is a record: kind "none" for    *)
(* return None, "raise" for an exception leaving the function, "event"     *)
(* for the returned dictionary.                                            *)
(***************************************************************************)
DecodeNone == [kind |-> "none"]
DecodeRaise == [kind |-> "raise"]

\* Lines 103-106: the two early returns.
decode_rejects(topics) ==
  \/ topics = <<>>
  \/ topics[1] # ERC20_SIG
  \/ Len(topics) < 3

\* Mutant of lines 108-109: the first 40 characters instead of the last.
topic_address_high(topic) == <<"0", "x">> \o Lower(SubSeq(topic, 1, 40))

\* Lines 108-109: "0x" + topic[-40:].lower()
topic_address(topic) == <<"0", "x">> \o Lower(LastChars(topic, 40))

\* Lines 112-117: the value, from the fourth topic when there is one.
decode_value(log) ==
  IF Len(log.topics) > 3 THEN IntHex(log.topics[4]) ELSE IntHex(log.data)

decode_log(log) ==
  LET \* read[1] is the value (lines 112-117), read[2] the block number
      \* (line 128), either of them ValueError when int() raises.
      Event(read) ==
        IF read[1] = ValueError \/ read[2] = ValueError THEN DecodeRaise
        ELSE [kind |-> "event",
              from |-> topic_address(log.topics[2]),
              to |-> topic_address(log.topics[3]),
              value |-> read[1],
              token |-> Lower(log.address),
              txHash |-> log.transactionHash,
              blockNumber |-> read[2]]
  IN IF decode_rejects(log.topics) THEN DecodeNone
     ELSE Apply(Event, <<decode_value(log), IntHex(log.blockNumber)>>)


(***************************************************************************)
(* What rpc (lines 27-46) hands back: None once the retries are used up,   *)
(* or the parsed JSON object.  Its "result" member, when present, is a     *)
(* string, a list, or JSON null.                                           *)
(***************************************************************************)
\* Python's None where a string is expected.
None == "None"
\* A local variable of main that is not bound.
Unbound == 0 - 1

RpcNone == [kind |-> "none"]
RpcNoResult == [kind |-> "dict", has_result |-> FALSE]
RpcString(chars) ==
  [kind |-> "dict", has_result |-> TRUE, type |-> "str", value |-> chars]
RpcList(items) ==
  [kind |-> "dict", has_result |-> TRUE, type |-> "list", value |-> items]
RpcNull == [kind |-> "dict", has_result |-> TRUE, type |-> "null"]

\* The test `res and "result" in res` of lines 50 and 91.
HasResult(res) == res.kind = "dict" /\ res.has_result

\* An exception leaving a function.
Raised == [kind |-> "raise"]

(***************************************************************************)
(* get_latest_block (lines 48-50): 0 without a result, else int(.., 16),   *)
(* which raises on a result that is no string or no number.                *)
(***************************************************************************)
BlockIs(n) == [kind |-> "ok", block |-> n]

get_latest_block(res) ==
  IF ~HasResult(res) THEN BlockIs(0)
  ELSE IF res.type # "str" THEN Raised
  ELSE IF IntHex(res.value) = ValueError THEN Raised
  ELSE BlockIs(Num(IntHex(res.value)))

(***************************************************************************)
(* get_best_rpc (lines 52-75).  probe[i] is what check_rpc measures for    *)
(* the i-th endpoint: the answer to eth_blockNumber and the latency.       *)
(***************************************************************************)
\* Line 58, for every call of check_rpc: the block it returns.
probe_blocks(probe) ==
  [i \in DOMAIN probe |-> get_latest_block(probe[i].res).block]
\* Line 59.
probe_latencies(probe) == [i \in DOMAIN probe |-> probe[i].latency]

\* Lines 54, 64-67: results, a dict keyed by endpoint, as the sequence of
\* its items in the order of insertion.  Only a probe with blk > 0 is
\* stored.  An endpoint that RPCS lists more than once is probed once for
\* each place: it keeps the place of its first stored probe and the value
\* of its last.
probe_results(rpcs, blocks, latencies) ==
  LET stored == {i \in DOMAIN rpcs : blocks[i] > 0}
      first == {i \in stored : \A j \in stored : rpcs[j] = rpcs[i] => i <= j}
      last(i) == CHOOSE j \in stored :
                   /\ rpcs[j] = rpcs[i]
                   /\ \A k \in stored : rpcs[k] = rpcs[i] => k <= j
      order == SelectSeq([i \in 1..Len(rpcs) |-> i], LAMBDA i : i \in first)
  IN SubSeq([k \in 1..Len(order) |->
               [node |-> rpcs[order[k]],
                block |-> blocks[last(order[k])],
                latency |-> latencies[last(order[k])]]], 1, Len(order))

\* Line 73: the order of the keys (block, -latency) of two items.
best_key_less(x, y) ==
  \/ x.block < y.block
  \/ /\ x.block = y.block
     /\ (0 - x.latency) < (0 - y.latency)

\* Line 73: max() keeps the first of the greatest items, in the order of
\* the dict.
best_index(results) ==
  CHOOSE i \in 1..Len(results) :
    \A j \in 1..Len(results) :
      /\ ~best_key_less(results[i], results[j])
      /\ ~best_key_less(results[j], results[i]) => i <= j

\* Line 70: return RPCS[0], 0.
best_rpc_fallback(rpcs) == [kind |-> "ok", node |-> rpcs[1], block |-> 0]

\* Lines 69-75, results being the dict of lines 64-67.
best_of(rpcs, results) ==
  IF results = <<>> THEN best_rpc_fallback(rpcs)
  ELSE [kind |-> "ok",
        node |-> results[best_index(results)].node,
        block |-> results[best_index(results)].block]

\* Lines 62-75 over the list rpcs.  ThreadPoolExecutor(max_workers=0)
\* raises ValueError on an empty list (line 62); an exception raised in
\* check_rpc leaves the function at future.result() (line 65).
best_rpc(rpcs, probe) ==
  IF rpcs = <<>> THEN Raised
  ELSE IF \E i \in DOMAIN probe : get_latest_block(probe[i].res) = Raised
  THEN Raised
  ELSE best_of(rpcs, probe_results(rpcs, probe_blocks(probe),
                                   probe_latencies(probe)))

get_best_rpc(probe) == best_rpc(RPCS, probe)

(***************************************************************************)
(* get_transfer_logs_batch (lines 77-98).                                  *)
(***************************************************************************)
\* Line 96.
next_chunk_start(batch_end) == batch_end + 1

\* Line 83.
chunk_end(current, end_block) == Min(current + BATCH_SIZE - 1, end_block)

RECURSIVE chunk_loop(_, _)
\* The turns of the while loop of lines 82-96: the (fromBlock, toBlock)
\* pairs of lines 85-86, in the order of the turns.  requested_chunks tells
\* which of the turns are reached.
chunk_loop(current, end_block) ==
  IF current <= end_block
  THEN <<<<current, chunk_end(current, end_block)>>>>
         \o chunk_loop(next_chunk_start(chunk_end(current, end_block)), end_block)
  ELSE <<>>

\* Lines 80-82.
Chunks(start_block, end_block) == chunk_loop(start_block, end_block)

RECURSIVE extend_all(_, _)
\* Lines 90-94 run over the chunks: answers[i] is what rpc hands back for
\* the i-th chunk.  A chunk without a result adds nothing; a result that is
\* a list is appended; extend raises TypeError on JSON null.
extend_all(answers, all_logs) ==
  IF answers = <<>> THEN [kind |-> "ok", logs |-> all_logs]
  ELSE IF ~HasResult(Head(answers)) THEN extend_all(Tail(answers), all_logs)
  ELSE IF Head(answers).type = "null" THEN Raised
  ELSE extend_all(Tail(answers), all_logs \o Head(answers).value)

RECURSIVE failed_blocks(_, _)
\* Line 94: the blocks of the chunks reported as failed.  The loop ends at
\* the first chunk on which extend raises: the chunks after it are neither
\* asked for nor reported.
failed_blocks(chunks, answers) ==
  IF chunks = <<>> THEN {}
  ELSE IF ~HasResult(Head(answers))
  THEN (Head(chunks)[1]..Head(chunks)[2])
         \cup failed_blocks(Tail(chunks), Tail(answers))
  ELSE IF Head(answers).type = "null" THEN {}
  ELSE failed_blocks(Tail(chunks), Tail(answers))

\* Lines 82-96: the chunks eth_getLogs is asked for, answers[i] being what
\* rpc hands back for the i-th.  The extend of line 92 raises on the first
\* answer whose result is JSON null, and the chunks after that one are not
\* asked for.
requested_chunks(chunks, answers) ==
  LET raising == {i \in 1..Len(chunks) :
                    HasResult(answers[i]) /\ answers[i].type = "null"}
  IN IF raising = {} THEN chunks
     ELSE SubSeq(chunks, 1, CHOOSE i \in raising : \A j \in raising : i <= j)

\* answers holds one answer per chunk of the range.
get_transfer_logs_batch(start_block, end_block, answers) ==
  extend_all(answers, <<>>)

(***************************************************************************)
(* The duplicate check of lines 258-262 on processed_txs (line 22), a      *)
(* deque with a maximum length.                                            *)
(***************************************************************************)
\* Line 22: processed_txs = deque(maxlen=1000).
PROCESSED_MAXLEN == 1000

\* Mutant of line 260: no hash is found in the deque.
tx_seen_never(ring, tx_id) == FALSE

\* Line 260: tx_id in processed_txs.
tx_seen(ring, tx_id) == \E i \in 1..Len(ring) : ring[i] = tx_id

\* Mutant of line 262: a full deque drops the newest entry, not the oldest.
tx_append_drop_newest(ring, tx_id) ==
  IF Len(ring) >= PROCESSED_MAXLEN
  THEN SubSeq(ring, 1, Len(ring) - 1) \o <<tx_id>>
  ELSE Append(ring, tx_id)

\* Line 262: append to a deque(maxlen): a full deque drops its oldest entry.
tx_append(ring, tx_id) ==
  IF Len(ring) >= PROCESSED_MAXLEN
  THEN Tail(ring) \o <<tx_id>>
  ELSE Append(ring, tx_id)

(***************************************************************************)
(* get_symbol (lines 131-156).                                             *)
(***************************************************************************)
UNK == <<"U", "N", "K">>

\* What stands for the bytes when bytes.fromhex raises ValueError.
BadHex == <<0 - 1>>

\* bytes.fromhex(sym_hex): the bytes, or BadHex.  ASCII whitespace is
\* passed over before, between and after the bytes, never within one: the
\* characters that are left pair up, each pair two neighbouring hex digits.
fromhex(sym_hex) ==
  LET Bytes(text) ==
        LET Pairs(at) ==
              IF \/ Len(at) % 2 # 0
                 \/ \E i \in 1..Len(at) : HexVal(text[at[i]]) < 0
                 \/ \E k \in 1..(Len(at) \div 2) : at[2 * k] # at[2 * k - 1] + 1
              THEN BadHex
              ELSE [k \in 1..(Len(at) \div 2) |->
                      16 * HexVal(text[at[2 * k - 1]]) + HexVal(text[at[2 * k]])]
        IN Apply(Pairs, SelectSeq([i \in 1..Len(text) |-> i],
                                  LAMBDA i : text[i] \notin HexSpace))
  IN Apply(Bytes, sym_hex)

\* The byte k places after the first of bytes is there and lies in lo..hi.
ByteIn(bytes, k, lo, hi) ==
  /\ Len(bytes) > k
  /\ bytes[k + 1] >= lo
  /\ bytes[k + 1] <= hi

\* The length of the UTF-8 sequence bytes begins with, 0 when it begins
\* with none (a stray continuation byte, an overlong or truncated form, a
\* surrogate, a code point above U+10FFFF).
Utf8Length(bytes) ==
  LET lead == bytes[1]
  IN CASE lead < 128 -> 1
       [] lead >= 194 /\ lead <= 223 ->
            IF ByteIn(bytes, 1, 128, 191) THEN 2 ELSE 0
       [] lead = 224 ->
            IF ByteIn(bytes, 1, 160, 191) /\ ByteIn(bytes, 2, 128, 191)
            THEN 3 ELSE 0
       [] (lead >= 225 /\ lead <= 236) \/ lead \in {238, 239} ->
            IF ByteIn(bytes, 1, 128, 191) /\ ByteIn(bytes, 2, 128, 191)
            THEN 3 ELSE 0
       [] lead = 237 ->
            IF ByteIn(bytes, 1, 128, 159) /\ ByteIn(bytes, 2, 128, 191)
            THEN 3 ELSE 0
       [] lead = 240 ->
            IF /\ ByteIn(bytes, 1, 144, 191)
               /\ ByteIn(bytes, 2, 128, 191)
               /\ ByteIn(bytes, 3, 128, 191)
            THEN 4 ELSE 0
       [] lead >= 241 /\ lead <= 243 ->
            IF /\ ByteIn(bytes, 1, 128, 191)
               /\ ByteIn(bytes, 2, 128, 191)
               /\ ByteIn(bytes, 3, 128, 191)
            THEN 4 ELSE 0
       [] lead = 244 ->
            IF /\ ByteIn(bytes, 1, 128, 143)
               /\ ByteIn(bytes, 2, 128, 191)
               /\ ByteIn(bytes, 3, 128, 191)
            THEN 4 ELSE 0
       [] OTHER -> 0

\* The code point of the UTF-8 sequence of length n that bytes begins with.
Utf8CodePoint(bytes, n) ==
  CASE n = 1 -> bytes[1]
    [] n = 2 -> (bytes[1] % 32) * 64 + (bytes[2] % 64)
    [] n = 3 -> (bytes[1] % 16) * 4096 + (bytes[2] % 64) * 64 + (bytes[3] % 64)
    [] n = 4 -> (bytes[1] % 8) * 262144 + (bytes[2] % 64) * 4096
                  + (bytes[3] % 64) * 64 + (bytes[4] % 64)

\* bytes.decode("utf-8", errors="ignore"): one character for every UTF-8
\* sequence, none for a byte that begins no sequence.  The bytes after the
\* first of a sequence are continuation bytes, which begin no sequence, so
\* the characters are those of the places where a sequence begins.
decode_utf8(bytes) ==
  LET Text(b) ==
        LET CodePoint(rest) == CharOf(Utf8CodePoint(rest, Utf8Length(rest)))
            Chars(at) ==
              [k \in 1..Len(at) |->
                 Apply(CodePoint, SubSeq(b, at[k], Min(at[k] + 3, Len(b))))]
        IN Apply(Chars,
                 SelectSeq([i \in 1..Len(b) |-> i],
                           LAMBDA i : Apply(Utf8Length,
                                            SubSeq(b, i, Min(i + 3, Len(b)))) > 0))
  IN Apply(Text, bytes)

\* bytes.fromhex raises ValueError.
HexTextRaises(sym_hex) == fromhex(sym_hex) = BadHex

\* bytes.fromhex(sym_hex).decode("utf-8", errors="ignore")
HexText(sym_hex) == decode_utf8(fromhex(sym_hex))

\* What stands for sym_hex when an int(.., 16) of lines 143-144 raises.
NoHex == <<"ValueError">>

\* Lines 142-147: the hex digits of the symbol.
symbol_hex(hexstr) ==
  LET Dynamic(text) ==
        LET Cut(offset) ==
              LET Symbol(length_word) ==
                    IF length_word = ValueError THEN NoHex
                    ELSE Slice(text, offset + 64,
                               offset + 64 + Num(length_word) * 2)
              IN Apply(Symbol, IntHex(Slice(text, offset, offset + 64)))
            At(offset_word) ==
              IF offset_word = ValueError THEN NoHex
              ELSE Apply(Cut, Num(offset_word) * 2)
        IN Apply(At, IntHex(Slice(text, 0, 64)))
  IN IF Len(hexstr) > 128 THEN Apply(Dynamic, hexstr)
     ELSE StripRight(Slice(hexstr, 128, Len(hexstr)), {"0"})

\* Line 139: res and res.get("result") and res["result"] != "0x".
\* A result that is JSON null, an empty string or an empty list is falsy; a
\* list is never equal to "0x".
symbol_resolves(res) ==
  /\ HasResult(res)
  /\ res.type \in {"str", "list"}
  /\ res.value # <<>>
  /\ ~(res.type = "str" /\ res.value = <<"0", "x">>)

\* Lines 136-156: what a token that is not cached resolves to.
resolve_symbol(res) ==
  LET Named(text) ==
        LET Symbol(sym) == IF sym = <<>> THEN UNK ELSE sym
        IN Apply(Symbol, Strip(Strip(text, {CharOf(0)}), StrSpace))
      Resolved(sym_hex) ==
        IF sym_hex = NoHex THEN UNK
        ELSE IF HexTextRaises(sym_hex) THEN UNK
        ELSE Apply(Named, HexText(sym_hex))
  IN IF ~symbol_resolves(res) THEN UNK
     \* A list has a slice but neither int() of it (line 143) nor rstrip
     \* (line 147): the exception is caught at line 152.
     ELSE IF res.type = "list" THEN UNK
     ELSE Apply(Resolved, symbol_hex(Slice(res.value, 2, Len(res.value))))

\* Mutant of line 133: the cache is never consulted.
symbol_cached_never(cache, token_addr) == FALSE

\* Line 133: token_addr in symbol_cache.
symbol_cached(cache, token_addr) == token_addr \in DOMAIN cache

\* Lines 150 and 155: symbol_cache[token_addr] = ...
cache_store(cache, token_addr, sym) ==
  [t \in DOMAIN cache \cup {token_addr} |->
     IF t = token_addr THEN sym ELSE cache[t]]

\* The whole call: the symbol returned, the cache afterwards, and whether
\* eth_call was issued.  res is the answer rpc would give.
get_symbol(cache, token_addr, res) ==
  IF symbol_cached(cache, token_addr)
  THEN [symbol |-> cache[token_addr], cache |-> cache, called |-> FALSE]
  ELSE LET Stored(sym) ==
             [symbol |-> sym,
              cache |-> cache_store(cache, token_addr, sym),
              called |-> TRUE]
       IN Apply(Stored, resolve_symbol(res))
(***************************************************************************)
(* State.                                                                  *)
(*   main():          mpc (position), node, last_block,                    *)
(*                    consecutive_errors, latest, blocks_behind,           *)
(*                    process_from, process_to, logs (the part of the      *)
(*                    for loop of line 249 still to run), payload          *)
(*   module globals:  processed_txs, symbol_cache, zapier_queue,           *)
(*                    zapier_lock                                          *)
(*   zapier_worker(): wpc (position), w_payload (its local payload)        *)
(*   environment:     sink_ok (whether a POST to ZAP_URL gets a response)  *)
(*   history:         sent (send_to_zapier calls made), resp (the status   *)
(*                    each payload was answered with), raised (payloads    *)
(*                    whose POST raised), jumps (last_block and latest as  *)
(*                    each catch-up jump of line 238 found them), failed   *)
(*                    (blocks of the chunks that line 94 reported as       *)
(*                    failed), fetching (the tick has reached the call of  *)
(*                    line 246), eth_calls (symbol() calls per token),     *)
(*                    cache_writes (symbol_cache writes per token)         *)
(*   call:            the frame of a helper function run on its own; in    *)
(*                    SpecLogs the logs the for loop has been handed       *)
(***************************************************************************)
VARIABLES mpc, node, last_block, consecutive_errors, latest, blocks_behind,
          process_from, process_to, logs, payload,
          processed_txs, symbol_cache, zapier_queue, zapier_lock,
          wpc, w_payload, sink_ok,
          sent, resp, raised, jumps, failed, fetching, eth_calls, cache_writes,
          call

trackerVars == <<node, last_block, consecutive_errors, latest, blocks_behind,
                 process_from, process_to, jumps, failed, fetching>>
logVars == <<logs, processed_txs, symbol_cache, eth_calls, cache_writes>>
mainVars == <<mpc, trackerVars, logVars, payload, sent>>
workerVars == <<wpc, w_payload, resp, raised>>
queueVars == <<zapier_queue, zapier_lock>>
vars == <<mainVars, workerVars, queueVars, sink_ok, call>>


(***************************************************************************)
(* Bounds of the model.                                                    *)
(***************************************************************************)
\* Payloads handed to send_to_zapier in one run.
MaxPayloads == 3

\* A local holding a payload or None is a sequence of at most one payload.
NoPayload == <<>>

\* HTTP status codes the sink answers with (line 175 tells 200 from the rest).
StatusCodes == {200, 500}

(***************************************************************************)
(* send_to_zapier (lines 191-195): acquire zapier_lock, append, release.   *)
(***************************************************************************)
\* Line 194.
Enqueue(queue, p) == Append(queue, p)

\* Mutant of line 24: a lock that is handed to whoever asks.
lock_available_always(lock) == TRUE

\* Line 24: a threading.Lock is acquired only when no thread holds it.
lock_available(lock) == lock = "free"

\* Line 193: with zapier_lock (blocks until the lock is free).
SendAcquire ==
  /\ mpc = "send"
  /\ lock_available(zapier_lock)
  /\ zapier_lock' = "main"
  /\ mpc' = "send_locked"
  /\ UNCHANGED <<trackerVars, logVars, payload, sent, workerVars,
                 zapier_queue, sink_ok, call>>

\* Lines 194-195 and the release at the end of the with block; the caller
\* (line 286) then goes on with the for loop.
SendAppend ==
  /\ mpc = "send_locked"
  /\ zapier_queue' = Enqueue(zapier_queue, payload[1])
  /\ zapier_lock' = "free"
  /\ mpc' = "logs"
  /\ UNCHANGED <<trackerVars, logVars, payload, sent, workerVars, sink_ok,
                 call>>

(***************************************************************************)
(* zapier_worker (lines 158-188).                                          *)
(***************************************************************************)
\* Line 166: pop(0) returns the head ...
PopHead(queue) == Head(queue)
\* Mutant of line 166: the head is read and stays in the list.
PopRestKept(queue) == queue

\* ... and leaves the rest.
PopRest(queue) == Tail(queue)

\* Mutants of line 181: the payload goes to the tail; the payload is dropped.
RequeueAtTail(queue, p) == Append(queue, p)
RequeueDropped(queue, p) == queue
\* Mutant of line 181: insert(1, payload).
RequeueSecond(queue, p) ==
  IF queue = <<>> THEN <<p>> ELSE <<Head(queue), p>> \o Tail(queue)

\* Line 181: insert(0, payload).
Requeue(queue, p) == <<p>> \o queue

\* Line 164: with zapier_lock.
WorkerAcquire ==
  /\ wpc = "w_loop"
  /\ lock_available(zapier_lock)
  /\ zapier_lock' = "worker"
  /\ wpc' = "w_locked"
  /\ UNCHANGED <<mainVars, w_payload, resp, raised, zapier_queue, sink_ok, call>>

\* Lines 165-170: take the head or None, release the lock, branch on it.
WorkerPop ==
  /\ wpc = "w_locked"
  /\ IF zapier_queue # <<>>
     THEN /\ w_payload' = <<PopHead(zapier_queue)>>
          /\ zapier_queue' = PopRest(zapier_queue)
          /\ wpc' = "w_post"
     ELSE /\ w_payload' = NoPayload
          /\ zapier_queue' = zapier_queue
          /\ wpc' = "w_idle"
  /\ zapier_lock' = "free"
  /\ UNCHANGED <<mainVars, resp, raised, sink_ok, call>>

\* Mutant of lines 175-176: a status other than 200 is retried.
after_response_retry(status) == IF status = 200 THEN "w_loop" ELSE "w_requeue"

\* Lines 174-176: where the worker goes on after a response.  A status
\* other than 200 is printed, nothing more.
after_response(status) == "w_loop"

\* Lines 173-176: the POST returns a response; whatever its status, the
\* payload is dropped and the loop goes on.
WorkerPostResponse ==
  /\ wpc = "w_post"
  /\ sink_ok
  /\ \E status \in StatusCodes :
       /\ resp' = [resp EXCEPT ![w_payload[1].seq] = status]
       /\ wpc' = after_response(status)
  /\ UNCHANGED <<mainVars, w_payload, raised, queueVars, sink_ok, call>>

\* Lines 173, 177-178: the POST raises (timeout, connection failure).
WorkerPostRaises ==
  /\ wpc = "w_post"
  /\ ~sink_ok
  /\ raised' = raised \cup {w_payload[1].seq}
  /\ wpc' = "w_requeue"
  /\ UNCHANGED <<mainVars, w_payload, resp, queueVars, sink_ok, call>>

\* Line 180: with zapier_lock.
WorkerRequeueAcquire ==
  /\ wpc = "w_requeue"
  /\ lock_available(zapier_lock)
  /\ zapier_lock' = "worker"
  /\ wpc' = "w_requeue_locked"
  /\ UNCHANGED <<mainVars, w_payload, resp, raised, zapier_queue, sink_ok, call>>

\* Line 181 and the release.
WorkerRequeue ==
  /\ wpc = "w_requeue_locked"
  /\ zapier_queue' = Requeue(zapier_queue, w_payload[1])
  /\ zapier_lock' = "free"
  /\ wpc' = "w_retry_sleep"
  /\ UNCHANGED <<mainVars, w_payload, resp, raised, sink_ok, call>>

\* Lines 182 and 184: time.sleep returns.
WorkerWake ==
  /\ wpc \in {"w_retry_sleep", "w_idle"}
  /\ wpc' = "w_loop"
  /\ UNCHANGED <<mainVars, w_payload, resp, raised, queueVars, sink_ok, call>>

Worker ==
  \/ WorkerAcquire
  \/ WorkerPop
  \/ WorkerPostResponse
  \/ WorkerPostRaises
  \/ WorkerRequeueAcquire
  \/ WorkerRequeue
  \/ WorkerWake

\* The sink becomes reachable or unreachable.  ZAP_URL is an external
\* service; left empty as in line 12, requests.post raises on every call,
\* which is the sink of SpecBlocked.
SinkChanges ==
  /\ sink_ok' = ~sink_ok
  /\ UNCHANGED <<mainVars, workerVars, queueVars, call>>

(***************************************************************************)
(* Inputs: raw logs as a node returns them.                                *)
(***************************************************************************)
Repeat(c, n) == [i \in 1..n |-> c]

\* A 32-byte topic word holding the address addr (0x + 40 digits) in its low
\* 20 bytes and the digit fill in each of its upper 24 digits.
AddressWord(addr, fill) ==
  <<"0", "x">> \o Repeat(fill, 24) \o SubSeq(addr, 3, Len(addr))

\* The 32-byte big-endian word of v, for 0 <= v < 256.
UintWord(v) ==
  <<"0", "x">> \o Repeat("0", 62)
     \o <<HexAlphabet[(v \div 16) + 1], HexAlphabet[(v % 16) + 1]>>

\* An address that is not the watched one, written in upper case.
OTHER_LITERAL == <<"0", "x">> \o Repeat("B", 40)
THIRD_LITERAL == <<"0", "x">> \o Repeat("c", 40)

TOKEN_A == <<"0", "x", "A", "a">>
TOKEN_B == <<"0", "x", "b", "b">>

\* A well-formed Transfer log: three topics, the value in data.
TransferLog(from, to, v, token, tx, blk) ==
  [topics |-> <<ERC20_SIG, AddressWord(from, "0"), AddressWord(to, "0")>>,
   data |-> UintWord(v),
   address |-> token,
   transactionHash |-> tx,
   blockNumber |-> blk]

(***************************************************************************)
(* The payload of lines 268-283.  seq numbers the payloads in the order    *)
(* they are handed to send_to_zapier: it stands for the identity of the    *)
(* dictionary object.  A payload that is built and not handed over (line   *)
(* 285 raised) has the number of the next one that is.  amount (floating   *)
(* point) and timestamp (wall clock) are left out.                         *)
(***************************************************************************)
\* Line 268.
Direction(decoded) == IF WATCH_ADDRESS = decoded.to THEN "BUY" ELSE "SELL"

MakePayload(seq, decoded, symbol) ==
  [seq |-> seq,
   direction |-> Direction(decoded),
   symbol |-> symbol,
   txHash |-> decoded.txHash,
   block |-> decoded.blockNumber,
   from |-> decoded.from,
   to |-> decoded.to,
   token |-> decoded.token]

(***************************************************************************)
(* The for loop of lines 249-286.                                          *)
(***************************************************************************)
Count(f, t) == IF t \in DOMAIN f THEN f[t] ELSE 0
Bump(f, t) ==
  [x \in DOMAIN f \cup {t} |-> IF x = t THEN Count(f, t) + 1 ELSE f[x]]

\* Mutant of line 255: every decoded event passes the filter.
relevant_always(decoded) == TRUE

\* Line 255: WATCH_ADDRESS in (from, to).
relevant(decoded) == WATCH_ADDRESS \in {decoded.from, decoded.to}

\* Lines 249-286: one turn of the for loop.  An exception (decode_log
\* raising at line 250, the division of line 271 raising OverflowError,
\* the print of line 285 raising ValueError on a block number of more
\* digits than str() gives, the payload of line 273 being built by then)
\* leaves the loop for the handler of line 306; env.eth_answers is what
\* the node may answer to the eth_call of get_symbol.  Every variable of
\* the program is set here; call, which is none of them, is left to
\* ProcessLog.
LoopTurn(env) ==
  /\ mpc = "logs"
  /\ logs # <<>>
  /\ \E decoded \in {decode_log(Head(logs))} :
        CASE decoded.kind = "raise" ->
               /\ mpc' = "except"
               /\ logs' = <<>>
               /\ UNCHANGED <<processed_txs, symbol_cache, eth_calls,
                              cache_writes, payload, sent>>
          [] decoded.kind = "none" ->
               /\ mpc' = "logs"
               /\ logs' = Tail(logs)
               /\ UNCHANGED <<processed_txs, symbol_cache, eth_calls,
                              cache_writes, payload, sent>>
          [] OTHER ->
               IF ~relevant(decoded) \/ tx_seen(processed_txs, decoded.txHash)
               THEN /\ mpc' = "logs"
                    /\ logs' = Tail(logs)
                    /\ UNCHANGED <<processed_txs, symbol_cache, eth_calls,
                                   cache_writes, payload, sent>>
               ELSE \E res \in env.eth_answers :
                    \E got \in {get_symbol(symbol_cache, decoded.token, res)} :
                         /\ processed_txs' = tx_append(processed_txs, decoded.txHash)
                         /\ symbol_cache' = got.cache
                         /\ eth_calls' = IF got.called
                                         THEN Bump(eth_calls, decoded.token)
                                         ELSE eth_calls
                         /\ cache_writes' = IF got.cache # symbol_cache \/ got.called
                                            THEN Bump(cache_writes, decoded.token)
                                            ELSE cache_writes
                         /\ IF float_overflows(decoded.value)
                            THEN /\ mpc' = "except"
                                 /\ logs' = <<>>
                                 /\ UNCHANGED <<payload, sent>>
                            ELSE /\ payload' = <<MakePayload(sent + 1, decoded, got.symbol)>>
                                 /\ IF str_overflows(decoded.blockNumber)
                                    THEN /\ mpc' = "except"
                                         /\ logs' = <<>>
                                         /\ sent' = sent
                                    ELSE /\ sent' = sent + 1
                                         /\ logs' = Tail(logs)
                                         /\ mpc' = "send"
  /\ UNCHANGED <<trackerVars, workerVars, queueVars, sink_ok>>

ProcessLog(env) == LoopTurn(env) /\ UNCHANGED call

(***************************************************************************)
(* Inputs: what the node answers to the eth_call of get_symbol.            *)
(***************************************************************************)
\* symbol() answered with the ABI encoding of a string: the offset 0x20,
\* the length, the bytes padded to 32.
DynamicString(byte_digits, length) ==
  <<"0", "x">> \o Repeat("0", 62) \o <<"2", "0">>
     \o Repeat("0", 62) \o <<HexAlphabet[(length \div 16) + 1],
                              HexAlphabet[(length % 16) + 1]>>
     \o byte_digits \o Repeat("0", 64 - Len(byte_digits))

\* "HYPE"
HYPE_DIGITS == <<"4","8","5","9","5","0","4","5">>
PollEthAnswers == {RpcNone, RpcString(DynamicString(HYPE_DIGITS, 4))}

(***************************************************************************)
(* SpecDelivery: the delivery queue on its own.  The for loop of main runs *)
(* over a batch of relevant transfers, handing each payload it builds to   *)
(* send_to_zapier, while zapier_worker runs.                               *)
(***************************************************************************)
\* A relevant Transfer to the watched address.
LOG_BUY_A ==
  TransferLog(OTHER_LITERAL, WATCH_LITERAL, 1, TOKEN_A, "txA", <<"0", "x", "1">>)
\* A relevant Transfer from the watched address, of another token.
LOG_SELL_B ==
  TransferLog(WATCH_LITERAL, OTHER_LITERAL, 2, TOKEN_B, "txB", <<"0", "x", "2">>)
\* A relevant Transfer of a third transaction.
LOG_BUY_C ==
  TransferLog(THIRD_LITERAL, WATCH_LITERAL, 3, TOKEN_A, "txC", <<"0", "x", "3">>)

DeliverySamples == {LOG_BUY_A, LOG_SELL_B, LOG_BUY_C}

\* The batches the loop may be handed (line 246): eth_getLogs lists the
\* logs of a range in the order of their blocks.
DeliveryBatches ==
  {batch \in [1..MaxPayloads -> DeliverySamples] :
     \A i \in 1..(MaxPayloads - 1) :
       Num(IntHex(batch[i].blockNumber)) <= Num(IntHex(batch[i + 1].blockNumber))}

DeliveryEnv ==
  [blocks |-> {},
   block_raises |-> FALSE,
   selections |-> {},
   log_answers |-> {},
   eth_answers |-> PollEthAnswers]

NoCall == [fn |-> "none"]

InitTracker ==
  /\ node = Unbound
  /\ last_block = Unbound
  /\ consecutive_errors = Unbound
  /\ latest = Unbound
  /\ blocks_behind = Unbound
  /\ process_from = Unbound
  /\ process_to = Unbound
  /\ jumps = {}
  /\ failed = {}
  /\ fetching = FALSE

InitLogs ==
  /\ logs = <<>>
  /\ processed_txs = <<>>
  /\ symbol_cache = <<>>
  /\ eth_calls = <<>>
  /\ cache_writes = <<>>

InitQueue ==
  /\ zapier_queue = <<>>
  /\ zapier_lock = "free"
  /\ payload = NoPayload
  /\ sent = 0

\* Line 202: the worker thread is started at the top of its loop.
InitWorker ==
  /\ wpc = "w_loop"
  /\ w_payload = NoPayload
  /\ resp = [s \in 1..MaxPayloads |-> 0]
  /\ raised = {}

\* The height of the chain in SpecDelivery and SpecBlocked.
DeliveryHeight == Num(IntHex(LOG_BUY_C.blockNumber))

\* main at line 249 of its first tick: started at height 0, it has found
\* the chain at DeliveryHeight and has asked for the blocks up to it.
InitFetched ==
  /\ node = DEPLOYED_RPCS[1]
  /\ last_block = 0
  /\ consecutive_errors = 0
  /\ latest = DeliveryHeight
  /\ blocks_behind = DeliveryHeight
  /\ process_from = 1
  /\ process_to = DeliveryHeight
  /\ jumps = {}
  /\ failed = {}
  /\ fetching = TRUE

InitDelivery ==
  /\ mpc = "logs"
  /\ InitFetched
  /\ logs \in DeliveryBatches
  /\ processed_txs = <<>>
  /\ symbol_cache = <<>>
  /\ eth_calls = <<>>
  /\ cache_writes = <<>>
  /\ InitQueue
  /\ InitWorker
  /\ sink_ok \in BOOLEAN
  /\ call = NoCall

NextDelivery ==
  \/ ProcessLog(DeliveryEnv)
  \/ SendAcquire
  \/ SendAppend
  \/ WorkerAcquire
  \/ WorkerPop
  \/ WorkerPostResponse
  \/ WorkerPostRaises
  \/ WorkerRequeueAcquire
  \/ WorkerRequeue
  \/ WorkerWake
  \/ SinkChanges

SpecDelivery == InitDelivery /\ [][NextDelivery]_vars

\* The zapier_worker thread keeps running, the holder of zapier_lock leaves
\* its with block, and a thread waiting for the lock gets it in the end.
FairDelivery ==
  /\ WF_vars(SendAppend)
  /\ SF_vars(WorkerAcquire)
  /\ SF_vars(WorkerRequeueAcquire)
  /\ WF_vars(WorkerPop \/ WorkerPostResponse \/ WorkerPostRaises
               \/ WorkerRequeue \/ WorkerWake)

SpecDeliveryFair == SpecDelivery /\ FairDelivery

(***************************************************************************)
(* Where a payload is.                                                     *)
(***************************************************************************)
QueuedSeqs == {zapier_queue[i].seq : i \in 1..Len(zapier_queue)}
InQueue(s) == s \in QueuedSeqs
\* Popped by the worker and not yet answered or put back.
InFlight(s) ==
  /\ wpc \in {"w_post", "w_requeue", "w_requeue_locked"}
  /\ w_payload[1].seq = s
Answered(s) == resp[s] # 0
\* send_to_zapier(payload s) has returned.
Appended(s) == s < sent \/ (s = sent /\ mpc \notin {"send", "send_locked"})

(***************************************************************************)
(* C1: delivery is FIFO.  A payload is posted only when every payload      *)
(* handed to send_to_zapier before it has been answered by the sink, and   *)
(* a payload whose POST raised is back at the head of the queue, ahead of  *)
(* every payload queued after it.                                          *)
(***************************************************************************)
C1_FifoDelivery ==
  /\ wpc = "w_post" =>
       \A s \in 1..(w_payload[1].seq - 1) : Answered(s)
  /\ wpc = "w_retry_sleep" =>
       /\ zapier_queue # <<>>
       /\ Head(zapier_queue) = w_payload[1]
       /\ \A i \in 2..Len(zapier_queue) :
            zapier_queue[i].seq > w_payload[1].seq

\* A payload is being posted after its predecessor raised, was put back
\* and was answered, with a third payload waiting behind it.
C1_Witness ==
  /\ wpc = "w_post"
  /\ w_payload[1].seq = 2
  /\ 1 \in raised
  /\ Answered(1)
  /\ InQueue(3)

(***************************************************************************)
(* C2: eventual delivery.  If from some point on the sink answers every    *)
(* POST, every payload in the queue is eventually answered, and until it   *)
(* is answered a payload handed to send_to_zapier is in the queue or with  *)
(* the worker.                                                             *)
(***************************************************************************)
C2_EventualDelivery ==
  /\ (<>[]sink_ok) =>
       \A s \in 1..MaxPayloads : (InQueue(s) ~> Answered(s))
  /\ [](\A s \in 1..MaxPayloads :
          Appended(s) => (InQueue(s) \/ InFlight(s) \/ Answered(s)))

\* A payload whose POST raised has been answered.
C2_Witness == \E s \in 1..MaxPayloads : s \in raised /\ Answered(s)

(***************************************************************************)
(* Helper functions run on their own: call holds the arguments and, once   *)
(* the function has returned, its result.                                  *)
(***************************************************************************)
\* Everything but call, for a specification of one helper function.
InitHelper ==
  /\ mpc = "off"
  /\ InitTracker
  /\ InitLogs
  /\ InitQueue
  /\ InitWorker
  /\ sink_ok = TRUE

helperFrame == <<mainVars, workerVars, queueVars, sink_ok>>

(***************************************************************************)
(* SpecChunk: get_transfer_logs_batch on a range, the node answering each  *)
(* chunk.  call.requested holds the chunks eth_getLogs was asked for.      *)
(***************************************************************************)
MaxChunkStart == 3
MaxChunkSpan == 250

\* What rpc hands back for a chunk: a result that is a list, None once the
\* retries are used up, a result that is JSON null.
ChunkAnswers == {RpcList(<<>>), RpcNone, RpcNull}

InitChunk ==
  /\ InitHelper
  /\ \E start \in 0..MaxChunkStart, span \in 1..MaxChunkSpan :
       \E answers \in [1..Len(Chunks(start, start + span - 1)) -> ChunkAnswers] :
         call = [fn |-> "get_transfer_logs_batch", start_block |-> start,
                 end_block |-> start + span - 1, answers |-> answers,
                 returned |-> FALSE, requested |-> <<>>, ret |-> Raised]

CallChunks ==
  /\ call.fn = "get_transfer_logs_batch"
  /\ ~call.returned
  /\ call' = [call EXCEPT
                !.returned = TRUE,
                !.requested = requested_chunks(
                                Chunks(call.start_block, call.end_block),
                                call.answers),
                !.ret = get_transfer_logs_batch(call.start_block, call.end_block,
                                                call.answers)]
  /\ UNCHANGED helperFrame

SpecChunk == InitChunk /\ [][CallChunks]_vars

(***************************************************************************)
(* C5: chunking is exact.  The chunks asked for start at start_block, end  *)
(* at end_block, each begins one block after the one before it ends, each  *)
(* but the last spans BATCH_SIZE blocks and the last at most BATCH_SIZE.   *)
(***************************************************************************)
C5_ChunkingExact ==
  (call.fn = "get_transfer_logs_batch" /\ call.returned) =>
    LET chunks == call.requested
        n == Len(chunks)
    IN /\ n >= 1
       /\ chunks[1][1] = call.start_block
       /\ \A i \in 1..n : chunks[i][1] <= chunks[i][2]
       /\ \A i \in 1..(n - 1) : chunks[i + 1][1] = chunks[i][2] + 1
       /\ \A i \in 1..(n - 1) : chunks[i][2] - chunks[i][1] + 1 = BATCH_SIZE
       /\ chunks[n][2] - chunks[n][1] + 1 <= BATCH_SIZE
       /\ chunks[n][2] = call.end_block

(***************************************************************************)
(* SpecBest: get_best_rpc over three endpoints, each probe answered by its *)
(* node.                                                                   *)
(***************************************************************************)
\* The answer to eth_blockNumber that reports height h (h < 256).
HexOf(h) ==
  IF h < 16 THEN <<"0", "x", HexAlphabet[h + 1]>>
  ELSE <<"0", "x", HexAlphabet[(h \div 16) + 1], HexAlphabet[(h % 16) + 1]>>

BEST_RPCS == <<"http://rpc1", "http://rpc2", "http://rpc3">>
\* RPCS naming its first endpoint a second time.
REPEATED_RPCS == <<"http://rpc1", "http://rpc2", "http://rpc1">>
MaxProbeHeight == 3
MaxLatency == 2
Latencies == 1..MaxLatency

\* What rpc hands back to a probe: None once the retries are used up, a
\* result that is JSON null, a height.
BestAnswers ==
  {RpcNone, RpcNull} \cup {RpcString(HexOf(h)) : h \in 1..MaxProbeHeight}

InitBest ==
  /\ InitHelper
  /\ \E rpcs \in {BEST_RPCS, REPEATED_RPCS} :
       \E probe \in [1..Len(rpcs) -> [res : BestAnswers, latency : Latencies]] :
         call = [fn |-> "get_best_rpc", rpcs |-> rpcs, probe |-> probe,
                 returned |-> FALSE, ret |-> Raised]

CallBest ==
  /\ call.fn = "get_best_rpc"
  /\ ~call.returned
  /\ call' = [call EXCEPT !.returned = TRUE,
                          !.ret = best_rpc(call.rpcs, call.probe)]
  /\ UNCHANGED helperFrame

SpecBest == InitBest /\ [][CallBest]_vars

(***************************************************************************)
(* C7: endpoint selection.  Over a list of distinct endpoints, the height  *)
(* of an endpoint being the one its node reports and 0 when its call gives *)
(* none: when some endpoint has a positive height, an endpoint is          *)
(* returned, it has the greatest height of all, no endpoint of that height *)
(* has a lower latency, and the height returned is its own.                *)
(***************************************************************************)
C7_BestEndpoint ==
  (call.fn = "get_best_rpc" /\ call.returned) =>
    LET n == Len(call.rpcs)
        height == [i \in 1..n |->
                     IF get_latest_block(call.probe[i].res) = Raised THEN 0
                     ELSE get_latest_block(call.probe[i].res).block]
        latency == [i \in 1..n |-> call.probe[i].latency]
    IN (/\ \A i, j \in 1..n : call.rpcs[i] = call.rpcs[j] => i = j
        /\ \E i \in 1..n : height[i] > 0) =>
         /\ call.ret.kind = "ok"
         /\ \E i \in 1..n :
              /\ call.ret.node = call.rpcs[i]
              /\ call.ret.block = height[i]
              /\ \A j \in 1..n : height[j] <= height[i]
              /\ \A j \in 1..n : height[j] = height[i] => latency[i] <= latency[j]

(***************************************************************************)
(* SpecDecode: decode_log on logs of every shape.  call.src holds what     *)
(* the log was built from.                                                 *)
(***************************************************************************)
LogShapes ==
  {"no_topics", "wrong_signature", "two_topics", "three_topics", "four_topics"}
SampleAddresses == {WATCH_LITERAL, OTHER_LITERAL, THIRD_LITERAL}
SampleValues == {0, 1, 255}
\* The value carried by a fourth topic.
IndexedValue == 7

\* The Transfer signature with its last digit changed.
WRONG_SIG == [ERC20_SIG EXCEPT ![Len(ERC20_SIG)] = "0"]

SampleTopics(src) ==
  LET from == AddressWord(src.from, src.fill)
      to == AddressWord(src.to, src.fill)
  IN CASE src.shape = "no_topics" -> <<>>
       [] src.shape = "wrong_signature" -> <<WRONG_SIG, from, to>>
       [] src.shape = "two_topics" -> <<ERC20_SIG, from>>
       [] src.shape = "three_topics" -> <<ERC20_SIG, from, to>>
       [] src.shape = "four_topics" ->
            <<ERC20_SIG, from, to, UintWord(IndexedValue)>>

SampleLog(src) ==
  [topics |-> SampleTopics(src),
   data |-> IF src.data = "word" THEN UintWord(src.value) ELSE <<"0", "x">>,
   address |-> TOKEN_A,
   transactionHash |-> "txA",
   blockNumber |-> <<"0", "x", "1", "F">>]

InitDecode ==
  /\ InitHelper
  /\ \E shape \in LogShapes, from \in SampleAddresses, to \in SampleAddresses,
        fill \in {"0", "f"}, value \in SampleValues, data \in {"word", "empty"} :
       call = [fn |-> "decode_log",
               src |-> [shape |-> shape, from |-> from, to |-> to,
                        fill |-> fill, value |-> value, data |-> data],
               returned |-> FALSE, ret |-> DecodeNone]

CallDecode ==
  /\ call.fn = "decode_log"
  /\ ~call.returned
  /\ call' = [call EXCEPT !.returned = TRUE,
                          !.ret = decode_log(SampleLog(call.src))]
  /\ UNCHANGED helperFrame

SpecDecode == InitDecode /\ [][CallDecode]_vars

(***************************************************************************)
(* C10: decoding.  An event comes out only of a log whose first topic is   *)
(* the Transfer signature and that has at least three topics; its from and *)
(* to are the low 20 bytes of the second and third topic, its token the    *)
(* emitting address, its value the fourth topic when there is one and the  *)
(* integer in data otherwise.  A log with no topics, another signature or  *)
(* two topics gives no event.                                              *)
(***************************************************************************)
C10_Decoding ==
  (call.fn = "decode_log" /\ call.returned) =>
    LET src == call.src
        log == SampleLog(src)
    IN /\ call.ret.kind = "event" =>
            /\ Len(log.topics) >= 3
            /\ log.topics[1] = ERC20_SIG
            /\ call.ret.from = Lower(src.from)
            /\ call.ret.to = Lower(src.to)
            /\ call.ret.token = Lower(log.address)
            /\ call.ret.value =
                 IF Len(log.topics) >= 4 THEN IntOf(IndexedValue)
                 ELSE IntOf(src.value)
       /\ src.shape \in {"no_topics", "wrong_signature", "two_topics"} =>
            call.ret.kind = "none"
       /\ (src.shape = "three_topics" /\ src.data = "word") =>
            call.ret.kind = "event"

\* A three-topic log whose topics carry other digits above the addresses
\* was decoded, and its value is the 255 in its data.
C10_Witness ==
  /\ call.fn = "decode_log"
  /\ call.returned
  /\ call.src.shape = "three_topics"
  /\ call.src.fill = "f"
  /\ call.src.from = OTHER_LITERAL
  /\ call.ret.kind = "event"
  /\ call.ret.to = WATCH_ADDRESS
  /\ call.ret.value = IntOf(255)

(***************************************************************************)
(* main (lines 199-313), one action per stretch of the loop body.  The     *)
(* sets of answers the nodes may give are parameters of the actions.       *)
(*   mpc = "start"   before line 204                                       *)
(*         "tick"    at the top of the while loop (line 211)               *)
(*         "poll"    after the periodic check, before line 221             *)
(*         "logs"    in the for loop of line 249, logs being what is left  *)
(*         "send", "send_locked"   in send_to_zapier                       *)
(*         "except"  at line 306, an exception having been raised          *)
(*         "crashed" an exception has left main                            *)
(* latest, blocks_behind, process_from and process_to are the locals of    *)
(* main, Unbound until their first assignment; they keep their values from *)
(* one tick to the next.                                                   *)
(***************************************************************************)
\* What check_rpc may measure on the endpoints of the list rpcs: an answer
\* to eth_blockNumber and a latency each.
Probes(rpcs, height_answers, latencies) ==
  [1..Len(rpcs) -> [res : height_answers, latency : latencies]]

\* What get_best_rpc may return over the list rpcs.
Selections(rpcs, height_answers, latencies) ==
  {best_rpc(rpcs, probe) : probe \in Probes(rpcs, height_answers, latencies)}

\* Lines 204-209, get_best_rpc returning r.
StartupWith(r) ==
  /\ mpc = "start"
  /\ IF r.kind = "raise"
     THEN /\ mpc' = "crashed"
          /\ UNCHANGED <<node, last_block, consecutive_errors>>
     ELSE /\ mpc' = "tick"
          /\ node' = r.node
          /\ last_block' = r.block
          /\ consecutive_errors' = 0
  /\ UNCHANGED <<latest, blocks_behind, process_from, process_to, jumps, failed,
                 fetching, logVars, payload, sent, workerVars, queueVars,
                 sink_ok, call>>

Startup(env) == \E r \in env.selections : StartupWith(r)

\* Lines 214-219 with the 30 seconds elapsed, get_best_rpc returning r.
PeriodicReselectWith(r) ==
  /\ mpc = "tick"
  /\ IF r.kind = "raise"
     THEN /\ mpc' = "except"
          /\ node' = node
     ELSE /\ mpc' = "poll"
          /\ node' = r.node
  /\ UNCHANGED <<last_block, consecutive_errors, latest, blocks_behind,
                 process_from, process_to, jumps, failed, fetching,
                 logVars, payload, sent, workerVars, queueVars, sink_ok, call>>

PeriodicReselect(env) == \E r \in env.selections : PeriodicReselectWith(r)

\* Lines 221-228: the height query fails or reports 0 and the counter
\* stays within 3.
PollFails(env) ==
  /\ mpc \in {"tick", "poll"}
  /\ 0 \in env.blocks
  /\ ~(consecutive_errors + 1 > 3)
  /\ latest' = 0
  /\ consecutive_errors' = consecutive_errors + 1
  /\ mpc' = "tick"
  /\ UNCHANGED <<node, last_block, blocks_behind, process_from, process_to,
                 jumps, failed, fetching, logVars, payload, sent, workerVars,
                 queueVars, sink_ok, call>>

\* Lines 221-228: the height query fails or reports 0, the counter passes
\* 3 and get_best_rpc, forced, returns r.
ForcedReselectWith(r) ==
  /\ mpc \in {"tick", "poll"}
  /\ consecutive_errors + 1 > 3
  /\ latest' = 0
  /\ IF r.kind = "raise"
     THEN /\ mpc' = "except"
          /\ node' = node
          /\ consecutive_errors' = consecutive_errors + 1
     ELSE /\ mpc' = "tick"
          /\ node' = r.node
          /\ consecutive_errors' = 0
  /\ UNCHANGED <<last_block, blocks_behind, process_from, process_to,
                 jumps, failed, fetching, logVars, payload, sent, workerVars,
                 queueVars, sink_ok, call>>

ForcedReselect(env) ==
  /\ 0 \in env.blocks
  /\ \E r \in env.selections : ForcedReselectWith(r)

\* Line 221: int(.., 16) raises in get_latest_block.
PollRaises(env) ==
  /\ mpc \in {"tick", "poll"}
  /\ env.block_raises
  /\ mpc' = "except"
  /\ UNCHANGED <<trackerVars, logVars, payload, sent, workerVars, queueVars,
                 sink_ok, call>>

\* Line 236: the tick is too far behind.
too_far_behind(last, height) == height - last > MAX_BLOCK_GAP

\* Lines 236-238: last_block after the catch-up test.
catch_up(last, height) ==
  IF too_far_behind(last, height) THEN height - 2 ELSE last

\* Lines 221, 230-246: get_latest_block returns height, above last_block;
\* the range is fetched, each chunk being answered from env.log_answers.
\* Every variable of the program is set here; call, which is none of them,
\* is left to PollNewBlocks.
FetchNewBlocks(env) ==
  /\ mpc \in {"tick", "poll"}
  /\ fetching' = TRUE
  /\ \E height \in env.blocks :
       /\ height # 0
       /\ height > last_block
       /\ consecutive_errors' = 0
       /\ blocks_behind' = height - last_block
       /\ jumps' = IF too_far_behind(last_block, height)
                   THEN jumps \cup {<<last_block, height>>}
                   ELSE jumps
       /\ last_block' = catch_up(last_block, height)
       /\ process_from' = catch_up(last_block, height) + 1
       /\ process_to' = height
       /\ latest' = height
       /\ \E answers \in
              [1..Len(Chunks(catch_up(last_block, height) + 1, height))
                 -> env.log_answers] :
            \E got \in {get_transfer_logs_batch(
                          catch_up(last_block, height) + 1, height, answers)} :
               /\ failed' = failed \cup
                    failed_blocks(
                      Chunks(catch_up(last_block, height) + 1, height), answers)
               /\ IF got.kind = "raise"
                  THEN /\ mpc' = "except"
                       /\ logs' = <<>>
                  ELSE /\ mpc' = "logs"
                       /\ logs' = got.logs
  /\ UNCHANGED <<node, processed_txs, symbol_cache, eth_calls, cache_writes,
                 payload, sent, workerVars, queueVars, sink_ok>>

PollNewBlocks(env) == FetchNewBlocks(env) /\ UNCHANGED call

\* Lines 221, 230-233, 293-301: a height other than 0, nothing new.  Line
\* 294 reads blocks_behind, which is unbound until a tick has seen new
\* blocks.
PollNoNewBlocks(env) ==
  /\ mpc \in {"tick", "poll"}
  /\ \E height \in env.blocks :
       /\ height # 0
       /\ height <= last_block
       /\ latest' = height
  /\ mpc' = IF blocks_behind = Unbound THEN "except" ELSE "tick"
  /\ consecutive_errors' = 0
  /\ UNCHANGED <<node, last_block, blocks_behind, process_from,
                 process_to, jumps, failed, fetching, logVars, payload, sent,
                 workerVars, queueVars, sink_ok, call>>

\* Lines 288-301: the for loop is over.
EndTick ==
  /\ mpc = "logs"
  /\ logs = <<>>
  /\ last_block' = latest
  /\ fetching' = FALSE
  /\ mpc' = "tick"
  /\ UNCHANGED <<node, consecutive_errors, latest, blocks_behind, process_from,
                 process_to, jumps, failed, logVars, payload, sent, workerVars,
                 queueVars, sink_ok, call>>

\* Lines 306-313 with the counter staying within 5.
Except ==
  /\ mpc = "except"
  /\ ~(consecutive_errors + 1 > 5)
  /\ consecutive_errors' = consecutive_errors + 1
  /\ mpc' = "tick"
  /\ fetching' = FALSE
  /\ UNCHANGED <<node, last_block, latest, blocks_behind, process_from,
                 process_to, jumps, failed, logVars, payload, sent, workerVars,
                 queueVars, sink_ok, call>>

\* Lines 306-313 with the counter passing 5, get_best_rpc returning r.
ExceptReselectWith(r) ==
  /\ mpc = "except"
  /\ consecutive_errors + 1 > 5
  /\ IF r.kind = "raise"
     THEN /\ mpc' = "crashed"
          /\ consecutive_errors' = consecutive_errors + 1
          /\ UNCHANGED <<node, last_block>>
     ELSE /\ mpc' = "tick"
          /\ node' = r.node
          /\ last_block' = r.block
          /\ consecutive_errors' = 0
  /\ fetching' = FALSE
  /\ UNCHANGED <<latest, blocks_behind, process_from, process_to, jumps, failed,
                 logVars, payload, sent, workerVars, queueVars, sink_ok, call>>

ExceptReselect(env) == \E r \in env.selections : ExceptReselectWith(r)

(***************************************************************************)
(* SpecPoll: the poll loop, from startup on.  The nodes report any height  *)
(* up to MaxHeight, fail, or answer with a result that is no hex string;   *)
(* eth_getLogs is answered (failed requests are the subject of SpecTicks)  *)
(* with a null result, no log, one relevant Transfer, or a malformed log   *)
(* ahead of it.  zapier_worker is left out (it shares only zapier_queue and      *)
(* zapier_lock with the loop and is the subject of SpecDelivery), so       *)
(* zapier_queue holds every payload the loop has queued, in order.         *)
(***************************************************************************)
MaxHeight == 12
\* Payloads the poll loop queues in one run.
MaxQueued == 4

\* The heights the nodes report: two low ones and two that lie more than
\* MAX_BLOCK_GAP above them.
PollHeightValues == {1, 2, MaxHeight - 1, MaxHeight}

PollHeights ==
  {RpcNone, RpcNull} \cup {RpcString(HexOf(h)) : h \in PollHeightValues}

\* Three topics and an empty data payload: int("0x", 16) raises.
LOG_EMPTY_DATA == [LOG_BUY_A EXCEPT !.data = <<"0", "x">>, !.transactionHash = "txM"]

PollLogAnswers ==
  {RpcNull, RpcList(<<>>), RpcList(<<LOG_BUY_A>>),
   RpcList(<<LOG_EMPTY_DATA, LOG_BUY_A>>)}

InitPoll ==
  /\ mpc = "start"
  /\ InitTracker
  /\ InitLogs
  /\ InitQueue
  /\ InitWorker
  /\ sink_ok = TRUE
  /\ call = NoCall

\* The guard of a step that queues a payload: the run is cut off after
\* MaxQueued payloads.
QueueHasRoom == sent < MaxQueued

\* The heights get_latest_block returns over the answers given.
BlocksOf(height_answers) ==
  {get_latest_block(res).block :
     res \in {r \in height_answers : get_latest_block(r) # Raised}}

\* get_latest_block raises on one of the answers given.
BlockRaises(height_answers) ==
  \E res \in height_answers : get_latest_block(res) = Raised

\* The answers to eth_blockNumber, as get_latest_block reads them.
PollBlocks == BlocksOf(PollHeights)

\* What get_best_rpc returns over every way the endpoints may answer, with
\* RPCS as the repository has it and as a deployment fills it.
PollSelections ==
  Selections(RPCS, PollHeights, Latencies)
    \cup Selections(DEPLOYED_RPCS, PollHeights, Latencies)

PollEnv ==
  [blocks |-> PollBlocks,
   block_raises |-> BlockRaises(PollHeights),
   selections |-> PollSelections,
   log_answers |-> PollLogAnswers,
   eth_answers |-> PollEthAnswers]

NextPoll ==
  \/ Startup(PollEnv)
  \/ PeriodicReselect(PollEnv)
  \/ PollFails(PollEnv)
  \/ ForcedReselect(PollEnv)
  \/ PollRaises(PollEnv)
  \/ PollNewBlocks(PollEnv)
  \/ PollNoNewBlocks(PollEnv)
  \/ (QueueHasRoom /\ ProcessLog(PollEnv))
  \/ SendAcquire
  \/ SendAppend
  \/ EndTick
  \/ Except
  \/ ExceptReselect(PollEnv)

SpecPoll == InitPoll /\ [][NextPoll]_vars

(***************************************************************************)
(* C3: last_block never decreases.  Stated of every step of the loop: the  *)
(* value of last_block after the step is at least its value before.        *)
(***************************************************************************)
C3_CursorMonotone == [][last_block' >= last_block]_vars

(***************************************************************************)
(* C4: catch-up skip.  In a tick that finds more than MAX_BLOCK_GAP new    *)
(* blocks last_block is set to the height less 2, and no block from the    *)
(* old last_block + 1 to the height less 3 of a jump is in a range handed  *)
(* to get_transfer_logs_batch, in that tick or in a later one.             *)
(***************************************************************************)
C4_SkippedNeverFetched ==
  fetching =>
    /\ blocks_behind > MAX_BLOCK_GAP => process_from = latest - 1
    /\ \A jump \in jumps :
         \A b \in (jump[1] + 1)..(jump[2] - 3) :
           b \notin process_from..process_to

(***************************************************************************)
(* C8: degraded mode.  A re-selection in which no endpoint reports a       *)
(* positive height leaves node as it was, be it the periodic one, the one  *)
(* forced by zero heights or the one of the exception handler.             *)
(***************************************************************************)
\* What get_best_rpc returns when every endpoint fails to answer.
NoneAnswers ==
  [i \in 1..Len(DEPLOYED_RPCS) |-> [res |-> RpcNone, latency |-> 1]]
DegradedSelection == best_rpc(DEPLOYED_RPCS, NoneAnswers)

C8_DegradedKeepsEndpoint ==
  [][(\/ PeriodicReselectWith(DegradedSelection)
      \/ ForcedReselectWith(DegradedSelection)
      \/ ExceptReselectWith(DegradedSelection)) => node' = node]_vars

(***************************************************************************)
(* SpecDedup: lines 258-262 on their own, fed a stream of hashes of        *)
(* relevant transfers: some other hashes, all distinct, then the tracked   *)
(* hash twice, then more other hashes, then the tracked hash again.        *)
(* Hashes are numbered: 0 is the tracked one, k the k-th other one.        *)
(* call.since counts the other hashes recorded since the tracked one was   *)
(* (Unbound while it never was); call.since_before is that count before    *)
(* the latest hash was fed.                                                *)
(***************************************************************************)
TRACKED == 0

\* How many other hashes come before the tracked one, and between its
\* second and its third occurrence.
DedupLeads == {0, 1, PROCESSED_MAXLEN}
DedupGaps ==
  {0, 1, PROCESSED_MAXLEN - 1, PROCESSED_MAXLEN, PROCESSED_MAXLEN + 1}

\* The k-th hash of the stream.
dedup_stream(lead, gap, k) ==
  IF k <= lead THEN k
  ELSE IF k <= lead + 2 THEN TRACKED
  ELSE IF k <= lead + 2 + gap THEN k - 2
  ELSE TRACKED

InitDedup ==
  /\ InitHelper
  /\ \E lead \in DedupLeads, gap \in DedupGaps :
       call = [fn |-> "dedup", lead |-> lead, gap |-> gap, fed |-> 0,
               tx_id |-> Unbound, seen |-> FALSE, since |-> Unbound,
               since_before |-> Unbound, delivered |-> 0, dropped |-> 0]

\* Lines 258-262 for the next hash of the stream: a seen hash is passed
\* over, an unseen one is recorded (and goes on to be delivered).
DedupNext ==
  /\ call.fn = "dedup"
  /\ call.fed < call.lead + call.gap + 3
  /\ LET tx_id == dedup_stream(call.lead, call.gap, call.fed + 1)
         seen == tx_seen(processed_txs, tx_id)
     IN /\ processed_txs' = IF seen THEN processed_txs
                            ELSE tx_append(processed_txs, tx_id)
        /\ call' = [call EXCEPT
             !.fed = call.fed + 1,
             !.tx_id = tx_id,
             !.seen = seen,
             !.since_before = call.since,
             !.since = IF seen THEN call.since
                       ELSE IF tx_id = TRACKED THEN 0
                       ELSE IF call.since = Unbound THEN Unbound
                       ELSE call.since + 1,
             !.delivered = IF tx_id = TRACKED /\ ~seen
                           THEN call.delivered + 1 ELSE call.delivered,
             !.dropped = IF tx_id = TRACKED /\ seen
                         THEN call.dropped + 1 ELSE call.dropped]
  /\ UNCHANGED <<mpc, trackerVars, logs, symbol_cache, eth_calls,
                 cache_writes, payload, sent, workerVars, queueVars, sink_ok>>

SpecDedup == InitDedup /\ [][DedupNext]_vars

(***************************************************************************)
(* C6: the dedup ring.  A hash that is not in the ring is reported unseen  *)
(* and is recorded; fed again it is reported seen as long as fewer than    *)
(* PROCESSED_MAXLEN other hashes have been recorded since, and unseen      *)
(* again (recorded and delivered again) once PROCESSED_MAXLEN have.        *)
(***************************************************************************)
C6_DedupRing ==
  (call.fn = "dedup" /\ call.fed > 0) =>
    /\ Len(processed_txs) <= PROCESSED_MAXLEN
    /\ call.tx_id = TRACKED =>
         (call.seen <=> (/\ call.since_before # Unbound
                         /\ call.since_before < PROCESSED_MAXLEN))
    /\ call.tx_id # TRACKED => ~call.seen
    /\ ~call.seen => processed_txs[Len(processed_txs)] = call.tx_id
    /\ tx_seen(processed_txs, call.tx_id)

\* The tracked hash was recorded, passed over when it came again at once,
\* and is recorded a second time after exactly PROCESSED_MAXLEN others.
C6_Witness ==
  /\ call.fn = "dedup"
  /\ call.tx_id = TRACKED
  /\ ~call.seen
  /\ call.since_before = PROCESSED_MAXLEN
  /\ call.delivered = 2
  /\ call.dropped = 1

(***************************************************************************)
(* SpecSymbol: get_symbol called again and again, for either of two        *)
(* tokens, the node answering eth_call in any of the ways below.           *)
(* call.first[t] is what the first call for token t returned.              *)
(***************************************************************************)
MaxSymbolCalls == 4

SymbolTokens == {Lower(TOKEN_A), Lower(TOKEN_B)}

\* No answer, an answer without result, a null result, "0x", a string, a
\* result that is no hex, a short (static) result, a result that is a list.
SymbolAnswers ==
  {RpcNone, RpcNoResult, RpcNull, RpcString(<<"0", "x">>),
   RpcString(DynamicString(HYPE_DIGITS, 4)),
   RpcString(<<"0", "x", "z", "z">>),
   RpcString(<<"0", "x">> \o Repeat("0", 64)),
   RpcList(<<"a", "b", "c">>)}

InitSymbol ==
  /\ InitHelper
  /\ call = [fn |-> "get_symbol", n |-> 0, token_addr |-> None,
             res |-> RpcNone, ret |-> <<>>, called |-> FALSE,
             first |-> <<>>]

CallSymbol ==
  /\ call.fn = "get_symbol"
  /\ call.n < MaxSymbolCalls
  /\ \E token_addr \in SymbolTokens, res \in SymbolAnswers :
     \E got \in {get_symbol(symbol_cache, token_addr, res)} :
          /\ symbol_cache' = got.cache
          /\ eth_calls' = IF got.called THEN Bump(eth_calls, token_addr)
                          ELSE eth_calls
          /\ cache_writes' = IF got.cache # symbol_cache \/ got.called
                             THEN Bump(cache_writes, token_addr)
                             ELSE cache_writes
          /\ call' = [call EXCEPT
               !.n = call.n + 1,
               !.token_addr = token_addr,
               !.res = res,
               !.ret = got.symbol,
               !.called = got.called,
               !.first = IF token_addr \in DOMAIN call.first THEN call.first
                         ELSE cache_store(call.first, token_addr, got.symbol)]
  /\ UNCHANGED <<mpc, trackerVars, logs, processed_txs, payload, sent,
                 workerVars, queueVars, sink_ok>>

SpecSymbol == InitSymbol /\ [][CallSymbol]_vars

(***************************************************************************)
(* C9: the symbol cache.  For every token eth_call is issued at most once  *)
(* and symbol_cache is written at most once; every call returns what the   *)
(* first call for its token returned, which is what the cache holds, also  *)
(* when that is the sentinel "UNK" of a failed resolution.                 *)
(***************************************************************************)
C9_SymbolCache ==
  call.fn = "get_symbol" =>
    /\ \A t \in SymbolTokens :
         /\ Count(eth_calls, t) <= 1
         /\ Count(cache_writes, t) <= 1
         /\ (t \in DOMAIN call.first) <=> (t \in DOMAIN symbol_cache)
         /\ t \in DOMAIN call.first =>
              /\ symbol_cache[t] = call.first[t]
              /\ Count(eth_calls, t) = 1
              /\ Count(cache_writes, t) = 1
    /\ call.n > 0 =>
         /\ call.ret = call.first[call.token_addr]
         /\ call.called => resolve_symbol(call.res) = call.ret

\* A call that the node would have answered with a symbol returns the
\* sentinel cached by the failed first call, without asking the node.
C9_Witness ==
  /\ call.fn = "get_symbol"
  /\ call.n > 1
  /\ ~call.called
  /\ resolve_symbol(call.res) # UNK
  /\ call.ret = UNK
  /\ Count(eth_calls, call.token_addr) = 1

(***************************************************************************)
(* C11: a malformed log is skipped on its own.  Stated of every turn of    *)
(* the for loop of line 249: the loop goes on to the logs that are left,   *)
(* and the exception handler is not entered.                               *)
(***************************************************************************)
C11_MalformedLogSkipped ==
  [][(mpc = "logs" /\ logs # <<>>) =>
       (logs' = Tail(logs) /\ mpc' # "except")]_vars

(***************************************************************************)
(* C12: no error is fatal.  Stated of the exception handler of lines       *)
(* 306-313: whenever a tick has raised, the handler ends with the loop at  *)
(* the top of a next tick.                                                 *)
(***************************************************************************)
C12_NoFatalError == [][mpc = "except" => mpc' = "tick"]_vars

(***************************************************************************)
(* SpecTicks: the poll loop over a short chain on which no Transfer is     *)
(* logged.  The nodes report a height up to MaxTickHeight, fail, or answer *)
(* with a result that is no hex string; a request for logs fails (no       *)
(* answer after the retries, or an answer without result) or finds none.   *)
(***************************************************************************)
MaxTickHeight == 3

TickHeights ==
  {RpcNone, RpcNull} \cup {RpcString(HexOf(h)) : h \in 1..MaxTickHeight}
TickLogAnswers == {RpcNone, RpcNoResult, RpcList(<<>>)}

TickBlocks == BlocksOf(TickHeights)
TickSelections ==
  Selections(RPCS, TickHeights, {1})
    \cup Selections(DEPLOYED_RPCS, TickHeights, {1})

TickEnv ==
  [blocks |-> TickBlocks,
   block_raises |-> BlockRaises(TickHeights),
   selections |-> TickSelections,
   log_answers |-> TickLogAnswers,
   eth_answers |-> {RpcNone}]

NextTicks ==
  \/ Startup(TickEnv)
  \/ PeriodicReselect(TickEnv)
  \/ PollFails(TickEnv)
  \/ ForcedReselect(TickEnv)
  \/ PollRaises(TickEnv)
  \/ PollNewBlocks(TickEnv)
  \/ PollNoNewBlocks(TickEnv)
  \/ EndTick
  \/ Except
  \/ ExceptReselect(TickEnv)

SpecTicks == InitPoll /\ [][NextTicks]_vars

(***************************************************************************)
(* C13: a chunk whose eth_getLogs request fails.  The tick that could not  *)
(* fetch a chunk still ends with last_block at the upper bound of its      *)
(* range, and no block of a chunk that line 94 reported as failed is in a  *)
(* range handed to get_transfer_logs_batch by a later tick.                *)
(***************************************************************************)
C13_FailedChunkAbandoned ==
  [][/\ (mpc = "logs" /\ mpc' = "tick") => last_block' = process_to
     /\ (~fetching /\ fetching') =>
          \A b \in process_from'..process_to' : b \notin failed]_vars

(***************************************************************************)
(* C14: a payload that got a response is done with.  Once the sink has     *)
(* answered the POST of a payload, with whatever status, the payload is    *)
(* neither in the queue nor with the worker: it cannot be posted again.    *)
(***************************************************************************)
C14_AnsweredOnce ==
  \A s \in 1..MaxPayloads :
    Answered(s) => (~InQueue(s) /\ ~InFlight(s))

\* A payload was answered with status 500 and the worker went on to get the
\* next payload answered.
C14_Witness ==
  /\ resp[1] = 500
  /\ resp[2] = 200
  /\ wpc = "w_idle"

(***************************************************************************)
(* SpecBlocked: the producer and zapier_worker with a sink that is never   *)
(* reached: every POST raises.                                             *)
(***************************************************************************)
InitBlocked ==
  /\ mpc = "logs"
  /\ InitFetched
  /\ logs \in DeliveryBatches
  /\ processed_txs = <<>>
  /\ symbol_cache = <<>>
  /\ eth_calls = <<>>
  /\ cache_writes = <<>>
  /\ InitQueue
  /\ InitWorker
  /\ sink_ok = FALSE
  /\ call = NoCall

NextBlocked ==
  \/ ProcessLog(DeliveryEnv)
  \/ SendAcquire
  \/ SendAppend
  \/ WorkerAcquire
  \/ WorkerPop
  \/ WorkerPostRaises
  \/ WorkerRequeueAcquire
  \/ WorkerRequeue
  \/ WorkerWake

SpecBlocked == InitBlocked /\ [][NextBlocked]_vars /\ FairDelivery

(***************************************************************************)
(* C15: head-of-line blocking.  While every POST raises, the worker posts  *)
(* the first payload again and again and never another one; no payload is  *)
(* answered, and every payload handed to send_to_zapier is in the queue    *)
(* (or, the first one, with the worker), the queue being in the order the  *)
(* payloads were built and growing by every payload the producer appends.  *)
(***************************************************************************)
C15_HeadOfLineBlocking ==
  /\ [](\A s \in 1..MaxPayloads :
          /\ ~Answered(s)
          /\ InFlight(s) => s = 1
          /\ Appended(s) => (InQueue(s) \/ InFlight(s)))
  /\ [](\A i \in 1..Len(zapier_queue), j \in 1..Len(zapier_queue) :
          i < j => zapier_queue[i].seq < zapier_queue[j].seq)
  /\ [](Appended(1) => <>(wpc = "w_post" /\ w_payload[1].seq = 1))

\* The first payload has been posted in vain and is back at the head of a
\* queue that holds every payload the producer has built.
C15_Witness ==
  /\ ~sink_ok
  /\ 1 \in raised
  /\ wpc = "w_retry_sleep"
  /\ Len(zapier_queue) = MaxPayloads
  /\ Head(zapier_queue).seq = 1

(***************************************************************************)
(* C16: zapier_queue is touched under zapier_lock only.  The lock is held  *)
(* by main exactly while it is in the with block of send_to_zapier and by  *)
(* the worker exactly while it is in one of its two with blocks, never by  *)
(* both and not during the POST or a sleep; and a step that changes the    *)
(* queue is a step of the thread that holds the lock.                      *)
(***************************************************************************)
C16_QueueUnderLock ==
  /\ [](/\ (mpc = "send_locked") <=> (zapier_lock = "main")
        /\ (wpc \in {"w_locked", "w_requeue_locked"}) <=> (zapier_lock = "worker")
        /\ ~(mpc = "send_locked" /\ wpc \in {"w_locked", "w_requeue_locked"})
        /\ wpc \in {"w_post", "w_requeue", "w_idle", "w_retry_sleep"} =>
             zapier_lock # "worker")
  /\ [][zapier_queue' # zapier_queue =>
          \/ (zapier_lock = "main" /\ mpc = "send_locked" /\ mpc' = "logs")
          \/ (zapier_lock = "worker" /\ wpc \in {"w_locked", "w_requeue_locked"}
                /\ mpc' = mpc)]_vars

\* main waits in send_to_zapier for the lock the worker holds to put a
\* payload back.
C16_Witness ==
  /\ mpc = "send"
  /\ zapier_lock = "worker"
  /\ wpc = "w_requeue_locked"

(***************************************************************************)
(* C17: a height query that returns zero.  The tick is over with           *)
(* last_block as it was and the counter one higher, or, the counter        *)
(* having passed 3, with the endpoint selected anew and the counter at 0;  *)
(* a tick whose height query returns a positive height sets the counter    *)
(* to 0.                                                                   *)
(***************************************************************************)
C17_ZeroHeightTick ==
  [][/\ (PollFails(TickEnv) \/ ForcedReselect(TickEnv)) =>
          /\ mpc' = "tick"
          /\ last_block' = last_block
          /\ consecutive_errors' =
               IF consecutive_errors + 1 > 3 THEN 0
               ELSE consecutive_errors + 1
     /\ (PollNewBlocks(TickEnv) \/ PollNoNewBlocks(TickEnv)) =>
          consecutive_errors' = 0]_vars

(***************************************************************************)
(* C18: the normal range.  A tick that finds new blocks, no more than      *)
(* MAX_BLOCK_GAP of them, asks for the range from last_block + 1 to the    *)
(* height, and when the tick is over last_block is that height, so that    *)
(* the next such tick asks for the range that follows.                     *)
(***************************************************************************)
C18_NormalRange ==
  [][/\ (/\ ~fetching
         /\ fetching'
         /\ blocks_behind' <= MAX_BLOCK_GAP) =>
          /\ process_from' = last_block + 1
          /\ process_to' = last_block + blocks_behind'
          /\ process_to' = latest'
     /\ (/\ fetching
         /\ blocks_behind <= MAX_BLOCK_GAP
         /\ ~fetching') =>
          last_block' = process_to]_vars

(***************************************************************************)
(* C19: a tick without new blocks.  A tick whose height query returns a    *)
(* positive height that is not above last_block fetches nothing, leaves    *)
(* last_block, processed_txs and zapier_queue as they were, and goes to    *)
(* sleep without entering the exception handler, the first tick after      *)
(* startup included.                                                       *)
(***************************************************************************)
C19_QuietTick ==
  [][PollNoNewBlocks(TickEnv) =>
       /\ mpc' = "tick"
       /\ consecutive_errors' = 0
       /\ ~fetching'
       /\ UNCHANGED <<last_block, processed_txs, zapier_queue>>]_vars

(***************************************************************************)
(* rpc (lines 27-46).  An attempt either raises (the POST times out, the   *)
(* connection fails, the body is no JSON) or yields the parsed body,       *)
(* which may carry an "error" member.  call.answers[k] is what the k-th    *)
(* request would get.                                                      *)
(***************************************************************************)
AttemptRaises == [kind |-> "raise"]
AttemptJson(has_error, body) ==
  [kind |-> "json", has_error |-> has_error, body |-> body]

\* Lines 30-40: the attempt ends in `return result`.
attempt_returns(answer) == answer.kind = "json" /\ ~answer.has_error

\* Mutant of line 42: one retry more.
may_retry_once_more(retry_count) == retry_count <= MAX_RETRIES

\* Line 42.
may_retry(retry_count) == retry_count < MAX_RETRIES

\* Requests the node has an answer ready for.
MaxAnswers == 5

RpcBodies == {RpcNoResult, RpcString(<<"0", "x", "1">>)}
RpcAnswers ==
  {AttemptRaises} \cup
  {AttemptJson(has_error, body) : has_error \in BOOLEAN, body \in RpcBodies}

InitRpc ==
  /\ InitHelper
  /\ \E answers \in [1..MaxAnswers -> RpcAnswers] :
       call = [fn |-> "rpc", answers |-> answers, retry_count |-> 0,
               attempts |-> 0, returned |-> FALSE, ret |-> RpcNone]

\* One activation of rpc: the request of lines 30-35 and what follows it,
\* up to the return or the recursive call of line 44.
RpcAttempt ==
  /\ call.fn = "rpc"
  /\ ~call.returned
  /\ call.attempts < MaxAnswers
  /\ LET answer == call.answers[call.attempts + 1]
     IN call' =
          IF attempt_returns(answer)
          THEN [call EXCEPT !.attempts = call.attempts + 1,
                            !.returned = TRUE,
                            !.ret = answer.body]
          ELSE IF may_retry(call.retry_count)
          THEN [call EXCEPT !.attempts = call.attempts + 1,
                            !.retry_count = call.retry_count + 1]
          ELSE [call EXCEPT !.attempts = call.attempts + 1,
                            !.returned = TRUE,
                            !.ret = RpcNone]
  /\ UNCHANGED helperFrame

SpecRpc == InitRpc /\ [][RpcAttempt]_vars

(***************************************************************************)
(* C20: rpc's retries.  rpc makes at most MAX_RETRIES + 1 requests; it     *)
(* returns the body of the first of them that yields JSON without an       *)
(* error member, having made no request after that one, and None when      *)
(* none of the MAX_RETRIES + 1 does, an answer with an error member        *)
(* counting like a request that raised.                                    *)
(***************************************************************************)
C20_RpcRetryBounded ==
  call.fn = "rpc" =>
    LET good == {k \in 1..(MAX_RETRIES + 1) :
                   /\ call.answers[k].kind # "raise"
                   /\ ~call.answers[k].has_error}
        failed_before(k) == \A j \in 1..(k - 1) : j \notin good
    IN /\ call.attempts <= MAX_RETRIES + 1
       /\ call.retry_count <= MAX_RETRIES
       /\ ~call.returned => (call.attempts = call.retry_count
                               /\ failed_before(call.attempts + 1))
       /\ call.returned =>
            /\ failed_before(call.attempts)
            /\ IF call.attempts \in good
               THEN call.ret = call.answers[call.attempts].body
               ELSE /\ call.ret = RpcNone
                    /\ call.attempts = MAX_RETRIES + 1

\* rpc returned the body of its last permitted request, the ones before it
\* having raised or carried an error member.
C20_Witness ==
  /\ call.fn = "rpc"
  /\ call.returned
  /\ call.attempts = MAX_RETRIES + 1
  /\ call.ret # RpcNone
  /\ call.answers[1].kind = "raise"
  /\ call.answers[2].kind = "json"

(***************************************************************************)
(* SpecLogs: the poll loop over a chain whose nodes always answer, with    *)
(* Transfer logs of every kind in the ranges it asks for.  zapier_worker   *)
(* is left out, so zapier_queue holds every payload queued, in order.      *)
(* call.batches holds the batches get_transfer_logs_batch has returned,    *)
(* call.seen the logs the for loop of line 249 has taken, in order.        *)
(***************************************************************************)
\* Transfers into, out of, within and past the watched address; "t1" is
\* the hash of two Transfer logs of one transaction (the legs of a swap).
LOG_IN == TransferLog(OTHER_LITERAL, WATCH_LITERAL, 1, TOKEN_A, "t1", <<"0", "x", "1">>)
LOG_OUT_SAME_TX ==
  TransferLog(WATCH_LITERAL, OTHER_LITERAL, 2, TOKEN_A, "t1", <<"0", "x", "1">>)
LOG_OUT == TransferLog(WATCH_LITERAL, THIRD_LITERAL, 3, TOKEN_A, "t2", <<"0", "x", "1">>)
LOG_SELF == TransferLog(WATCH_LITERAL, WATCH_LITERAL, 4, TOKEN_A, "t3", <<"0", "x", "2">>)
LOG_PAST == TransferLog(OTHER_LITERAL, THIRD_LITERAL, 5, TOKEN_A, "t4", <<"0", "x", "2">>)

\* A Transfer out of the watched address whose data holds 16^256, which no
\* float holds: the division of line 271 raises OverflowError.
LOG_HUGE ==
  [LOG_OUT EXCEPT !.data = <<"0", "x", "1">> \o Repeat("0", 256)]

\* A Transfer within the watched address whose blockNumber is 16^3572, of
\* more digits than line 285 can print: it raises ValueError.
LOG_LONG_BLOCK ==
  [LOG_SELF EXCEPT !.blockNumber = <<"0", "x", "1">> \o Repeat("0", 3572)]

LogSamples ==
  {LOG_IN, LOG_OUT_SAME_TX, LOG_SELF, LOG_PAST, LOG_HUGE, LOG_LONG_BLOCK}

\* Logs the for loop is handed in a run, in however many batches.
MaxLogs == 3
\* The height the chain grows to.
MaxLogHeight == 3

\* What eth_getLogs may answer: any batch of up to MaxLogs logs.
LogBatches == UNION {[1..k -> LogSamples] : k \in 0..MaxLogs}

\* The answers to eth_blockNumber during the loop, and at startup.
LogHeights == {RpcString(HexOf(h)) : h \in 1..MaxLogHeight}
LogStartHeights == {RpcString(HexOf(1))}

LogsEnv ==
  [blocks |-> BlocksOf(LogHeights),
   block_raises |-> FALSE,
   selections |-> Selections(DEPLOYED_RPCS, LogStartHeights, {1}),
   log_answers |-> {RpcList(batch) : batch \in LogBatches},
   eth_answers |-> {RpcNone}]

InitLogLoop ==
  /\ mpc = "start"
  /\ InitTracker
  /\ InitLogs
  /\ InitQueue
  /\ InitWorker
  /\ sink_ok = TRUE
  /\ call = [fn |-> "for_logs", batches |-> <<>>, seen |-> <<>>]

\* The logs handed to the for loop so far.
Handed == IF call.batches = <<>> THEN 0 ELSE call.batches[Len(call.batches)].total

\* PollNewBlocks, the batch it fetches going on record.  The run is cut
\* off after MaxLogs logs.
LogsFetch ==
  /\ FetchNewBlocks(LogsEnv)
  /\ Handed + Len(logs') <= MaxLogs
  /\ call' = [call EXCEPT
                !.batches = Append(@, [logs |-> logs',
                                       total |-> Handed + Len(logs')])]

\* ProcessLog, the log it takes going on record.
LogsTurn ==
  /\ LoopTurn(LogsEnv)
  /\ call' = [call EXCEPT !.seen = Append(@, Head(logs))]

\* The exception handler is entered with the counter at 0, line 230 having
\* been passed in the tick that raised, so the handler never reaches the
\* get_best_rpc of line 311.
NextLogs ==
  \/ Startup(LogsEnv)
  \/ PeriodicReselect(LogsEnv)
  \/ LogsFetch
  \/ PollNoNewBlocks(LogsEnv)
  \/ LogsTurn
  \/ SendAcquire
  \/ SendAppend
  \/ EndTick
  \/ Except

SpecLogs == InitLogLoop /\ [][NextLogs]_vars

\* The payloads handed to send_to_zapier so far: those in the queue and the
\* one being queued.
Built ==
  zapier_queue \o (IF mpc \in {"send", "send_locked"} THEN payload ELSE <<>>)

(***************************************************************************)
(* C21: address filter and direction.  Every payload queued comes from a   *)
(* log the loop has taken whose decoded from or to is the watched address, *)
(* and its direction is BUY when the decoded to is the watched address     *)
(* (a transfer from the address to itself included) and SELL otherwise.    *)
(***************************************************************************)
C21_FilterAndDirection ==
  call.fn = "for_logs" =>
    LET events == {<<k, decode_log(call.seen[k])>> : k \in 1..Len(call.seen)}
    IN \A i \in 1..Len(Built) :
         LET p == Built[i]
         IN /\ WATCH_ADDRESS \in {p.from, p.to}
            /\ p.direction = (IF p.to = WATCH_ADDRESS THEN "BUY" ELSE "SELL")
            /\ \E e \in events :
                 /\ e[2].kind = "event"
                 /\ e[2].from = p.from
                 /\ e[2].to = p.to
                 /\ e[2].txHash = p.txHash

\* A transfer past the watched address went through the loop without a
\* payload, next to a transfer within the address (BUY) and one out of it.
C21_Witness ==
  /\ call.fn = "for_logs"
  /\ mpc = "tick"
  /\ last_block = latest
  /\ \E k \in 1..Len(call.seen) : call.seen[k] = LOG_PAST
  /\ Len(zapier_queue) = 2
  /\ \E i \in 1..2 :
       /\ zapier_queue[i].from = WATCH_ADDRESS
       /\ zapier_queue[i].to = WATCH_ADDRESS
       /\ zapier_queue[i].direction = "BUY"
  /\ \E i \in 1..2 : zapier_queue[i].direction = "SELL"

(***************************************************************************)
(* C22: payloads are conserved.  A payload that send_to_zapier has         *)
(* returned for is in exactly one place: once in zapier_queue, or with     *)
(* the worker between its pop and its answer or re-insertion, or answered  *)
(* and gone; a payload send_to_zapier has not returned for is in none.     *)
(***************************************************************************)
\* How often payload s is in the queue.
TimesQueued(s) ==
  Cardinality({i \in 1..Len(zapier_queue) : zapier_queue[i].seq = s})

C22_PayloadConserved ==
  \A s \in 1..MaxPayloads :
    LET places == <<TimesQueued(s),
                    IF InFlight(s) THEN 1 ELSE 0,
                    IF Answered(s) THEN 1 ELSE 0>>
    IN IF Appended(s)
       THEN places[1] + places[2] + places[3] = 1
       ELSE places[1] + places[2] + places[3] = 0

\* One payload is answered, the next is with the worker after a POST that
\* raised, and a third waits in the queue.
C22_Witness ==
  /\ Answered(1)
  /\ wpc = "w_requeue"
  /\ w_payload[1].seq = 2
  /\ 2 \in raised
  /\ TimesQueued(3) = 1
  /\ Appended(3)

(***************************************************************************)
(* C23: one payload per transaction hash.  While fewer than                *)
(* PROCESSED_MAXLEN hashes have been recorded, no two payloads carry the   *)
(* same transaction hash: of the logs with one hash that involve the       *)
(* watched address, in one batch or in several, only the first to go       *)
(* through the loop gives a payload (it gives one whenever its value       *)
(* converts to a float and its block number prints) and the others give    *)
(* none.                                                                   *)
(***************************************************************************)
\* The logs that have gone through the loop.
Processed == call.seen

C24_CatchUpProcessesTip ==
  [][/\ (/\ ~fetching
         /\ fetching'
         /\ blocks_behind' > MAX_BLOCK_GAP) =>
          /\ last_block' = latest' - 2
          /\ process_from' = latest' - 1
          /\ process_to' = latest'
     /\ (/\ fetching
         /\ blocks_behind > MAX_BLOCK_GAP
         /\ ~fetching') =>
          last_block' = latest]_vars

====
